---- MODULE Spec2Model ----
(***************************************************************************)
(* Robot-control gateway: Edge Server (Socket.IO + admission), the ZeroMQ  *)
(* command/callback channels, the Worker command loop and the Supervisor.  *)
(* Optional values are sequences of length at most one: <<>> is Python's   *)
(* None, <<x>> is the value x.                                             *)
(***************************************************************************)
EXTENDS Integers, Sequences, FiniteSets, TLC

\* ------------------------------------------------------------------ bounds
\* Number of Socket.IO connections (each gets a fresh sid) in one run.
MaxSid == 2
\* Number of client commands (update/start/process events) in one run.
MaxCmds == 2
\* Number of pushes the Edge Server's SUB socket holds undelivered (the
\* socket drops what arrives beyond its high-water mark).
MaxPush == 1
\* Number of requests fed to the Worker in one run of the Worker-only
\* specification.
MaxFeeds == 3
\* Number of uploads in one run of the sessions specification.
MaxLiveCmds == 1
\* The push specification: commands issued, pushes published, and pushes the
\* SUB socket buffers.
MaxPushCmds == 2
MaxPublish == 2
MaxBacklog == 2
\* Objects in the executor's context when its stop hooks are called.
MaxContext == 2

Sids == 1..MaxSid

\* ------------------------------------------------------- utils/error_codes
CONNECTION_REJECTED == "00001"
AUTH_TOKEN_MISSING == "00010"
AUTH_TOKEN_INVALID == "00011"
PROTOCOL_MISSING_FIELD == "01002"
PROTOCOL_UNKNOWN_COMMAND == "01003"
PROJECT_UPLOAD_FAILED == "02001"
PROJECT_INVALID_FORMAT == "02002"
PROJECT_LOAD_FAILED == "02003"
PROJECT_NOT_FOUND == "02004"
PROJECT_SECURITY_VIOLATION == "02005"
EXECUTION_FAILED == "03001"
METHOD_NOT_FOUND == "03002"
OBJECT_NOT_FOUND == "03003"
INTERNAL_ERROR == "99001"

\* Default messages, keyed by code (only the names matter to the model).
ERROR_MESSAGES(code) ==
    CASE code = CONNECTION_REJECTED -> "msg_connection_rejected"
      [] code = AUTH_TOKEN_MISSING -> "msg_token_missing"
      [] code = AUTH_TOKEN_INVALID -> "msg_token_invalid"
      [] code = PROTOCOL_MISSING_FIELD -> "msg_missing_field"
      [] code = PROTOCOL_UNKNOWN_COMMAND -> "msg_unknown_command"
      [] code = PROJECT_UPLOAD_FAILED -> "msg_upload_failed"
      [] code = PROJECT_INVALID_FORMAT -> "msg_invalid_format"
      [] code = PROJECT_LOAD_FAILED -> "msg_load_failed"
      [] code = PROJECT_NOT_FOUND -> "msg_project_not_found"
      [] code = PROJECT_SECURITY_VIOLATION -> "msg_security_violation"
      [] code = EXECUTION_FAILED -> "msg_execution_failed"
      [] code = INTERNAL_ERROR -> "msg_internal_error"
      [] OTHER -> "msg_unknown"

\* A reply map.  re is a ghost field: the id of the command the Worker was
\* answering (0 when the reply was made by the Edge Server itself).
Reply(status, code, message, result, re) ==
    [status |-> status, error_code |-> code, message |-> message,
     result |-> result, re |-> re]

create_error_response(code, custom_message) ==
    Reply("error", code,
          IF custom_message = "" THEN ERROR_MESSAGES(code) ELSE custom_message,
          "", 0)

create_success_response(message) == Reply("success", "", message, "", 0)

\* ------------------------------------------- worker/project_manager (archive)
MAX_ZIP_SIZE == 20 * 1024 * 1024
MAX_UNCOMPRESSED_SIZE == 100 * 1024 * 1024
MAX_FILES == 10
MAX_RATIO == 100
ALLOWED_EXTENSIONS ==
    {".py", ".txt", ".md", ".json", ".yaml", ".yml", ".ini", ".cfg", ".toml"}

\* Member names that occur in the modelled archives.  A name is a string; the
\* operators below give what the code's string and pathlib calls return on it.
MemberNames ==
    {"main.py", "lib/util.py", "notes.txt", "README", "run.sh", "MAIN.PY",
     "../evil.py", "/abs.py", "~root/x.py", "cfg$HOME.json", "a..b.py"}

\* Path(member).suffix.lower()
SuffixLower(name) ==
    CASE name \in {"main.py", "lib/util.py", "MAIN.PY", "../evil.py", "/abs.py",
                   "~root/x.py", "a..b.py"} -> ".py"
      [] name = "notes.txt" -> ".txt"
      [] name = "cfg$HOME.json" -> ".json"
      [] name = "run.sh" -> ".sh"
      [] OTHER -> ""

\* f.suffix == '.py' (case-sensitive, used by _detect_project_type)
IsPySuffix(name) == SuffixLower(name) = ".py" /\ name # "MAIN.PY"

\* member.startswith('/') or member.startswith('\\')
StartsAbsolute(name) == name = "/abs.py"

\* any(pattern in member for pattern in ['..', '~', '$'])
HasDangerousPattern(name) ==
    name \in {"../evil.py", "~root/x.py", "cfg$HOME.json", "a..b.py"}

\* any(part in ['.', '..'] or part.startswith('~') for part in Path(member).parts)
HasDangerousPart(name) == name \in {"../evil.py", "~root/x.py"}

\* (extract_to / member).resolve() is under extract_to
ResolvesInside(name) == name \notin {"../evil.py", "/abs.py"}

\* Faulty variant of _is_safe_path: every member name passes.
_is_safe_path_accepts_all(name) == TRUE

_is_safe_path(name) ==
    /\ ~StartsAbsolute(name)
    /\ ~HasDangerousPattern(name)
    /\ ~HasDangerousPart(name)
    /\ ResolvesInside(name)

Member(name, file_size, compress_size) ==
    [name |-> name, file_size |-> file_size, compress_size |-> compress_size,
     is_dir |-> FALSE]

DirMember(name) ==
    [name |-> name, file_size |-> 0, compress_size |-> 0, is_dir |-> TRUE]

\* A decoded upload: whether base64 decoding works, the size of the zip in
\* bytes, whether zipfile can open it, and its members in archive order.
Archive(id, b64ok, zipSize, zipok, members) ==
    [id |-> id, b64ok |-> b64ok, zipSize |-> zipSize, zipok |-> zipok,
     members |-> members]

Small(name) == Member(name, 200, 100)

ArcGoodA == Archive("A", TRUE, 1000, TRUE, <<Small("main.py"), Small("notes.txt")>>)
ArcGoodB == Archive("B", TRUE, 1000, TRUE, <<DirMember("lib/"), Small("main.py"), Small("lib/util.py")>>)
ArcNoEntry == Archive("noentry", TRUE, 1000, TRUE, <<Small("lib/util.py")>>)
ArcNoPython == Archive("nopy", TRUE, 1000, TRUE, <<Small("notes.txt"), Small("README")>>)
ArcUpperPy == Archive("upper", TRUE, 1000, TRUE, <<Small("MAIN.PY")>>)
ArcBadB64 == Archive("badb64", FALSE, 0, FALSE, <<>>)
ArcNotZip == Archive("notzip", TRUE, 1000, FALSE, <<>>)
ArcHugeZip == Archive("hugezip", TRUE, MAX_ZIP_SIZE + 1, TRUE, <<Small("main.py")>>)
ArcTooMany ==
    Archive("toomany", TRUE, 1000, TRUE,
            [i \in 1..(MAX_FILES + 1) |-> IF i = 1 THEN Small("main.py") ELSE Small("notes.txt")])
ArcHugeExpanded ==
    Archive("hugeexp", TRUE, MAX_ZIP_SIZE, TRUE,
            <<Member("main.py", MAX_UNCOMPRESSED_SIZE, MAX_UNCOMPRESSED_SIZE), Small("notes.txt")>>)
ArcBadExt == Archive("badext", TRUE, 1000, TRUE, <<Small("main.py"), Small("run.sh")>>)
ArcDotDot == Archive("dotdot", TRUE, 1000, TRUE, <<Small("main.py"), Small("../evil.py")>>)
ArcAbsolute == Archive("abs", TRUE, 1000, TRUE, <<Small("/abs.py")>>)
ArcTilde == Archive("tilde", TRUE, 1000, TRUE, <<Small("main.py"), Small("~root/x.py")>>)
ArcDollar == Archive("dollar", TRUE, 1000, TRUE, <<Small("main.py"), Small("cfg$HOME.json")>>)
ArcBomb == Archive("bomb", TRUE, 1000, TRUE, <<Small("main.py"), Member("notes.txt", 10001, 100)>>)
ArcRatioEdge == Archive("ratio100", TRUE, 1000, TRUE, <<Member("main.py", 10000, 100)>>)
\* A project whose main.py defines an init() that raises.
ArcInitRaises == Archive("initraises", TRUE, 1000, TRUE, <<Small("main.py")>>)

ValidArchives == {ArcGoodA, ArcGoodB, ArcNoEntry, ArcRatioEdge}
\* Archives that break one of the extraction rules of _safe_extract.
ViolatingArchives ==
    {ArcTooMany, ArcHugeExpanded, ArcBadExt, ArcDotDot, ArcAbsolute, ArcTilde,
     ArcDollar, ArcBomb}
OtherBadArchives == {ArcBadB64, ArcNotZip, ArcHugeZip, ArcNoPython, ArcUpperPy}
AllArchives ==
    ValidArchives \cup ViolatingArchives \cup OtherBadArchives \cup {ArcInitRaises}

ArchiveById(id) == CHOOSE a \in AllArchives : a.id = id

\* Files are (name, source) pairs; the source is the archive (or "default")
\* the bytes came from.
File(name, src) == [name |-> name, src |-> src]
DefaultFiles == {File("main.py", "default")}

RECURSIVE SumSizes(_)
SumSizes(ms) == IF ms = <<>> THEN 0 ELSE Head(ms).file_size + SumSizes(Tail(ms))

\* The per-member checks of _safe_extract, in the code's order; "" is a pass.
MemberError(m) ==
    IF m.is_dir THEN ""
    ELSE IF SuffixLower(m.name) # "" /\ SuffixLower(m.name) \notin ALLOWED_EXTENSIONS
         THEN "ext"
    ELSE IF ~_is_safe_path(m.name) THEN "path"
    ELSE IF m.compress_size > 0 /\ m.file_size > MAX_RATIO * m.compress_size
         THEN "ratio"
    ELSE ""

MemberErrors(a) ==
    {i \in 1..Len(a.members) : MemberError(a.members[i]) # ""}

\* errors is the content of ProjectError.message that matters: the names of
\* the members the message lists ({} when it lists none).
ExtractResult(cur, ok, code, ptype, errors) ==
    [cur |-> cur, ok |-> ok, code |-> code, ptype |-> ptype, errors |-> errors]

\* Faulty variant of written_at_raise: each member is written as soon as it
\* has passed its own checks, up to the first member that fails.
written_while_validating(a) ==
    {File(a.members[i].name, a.id) :
       i \in {j \in 1..Len(a.members) :
                /\ ~a.members[j].is_dir
                /\ \A k \in 1..j : MemberError(a.members[k]) = ""}}

\* The member files _safe_extract has written when it raises for the
\* members' errors (step 4): the validation loop (step 3) only collects
\* errors, the extraction loop (step 5) is the only place that opens a
\* target file.
written_at_raise(a) == {}

\* _safe_extract on current/ holding only project.zip: the error code it
\* raises ("" when it extracts) and the files it has written.
_safe_extract(a) ==
    IF ~a.zipok THEN [code |-> PROJECT_UPLOAD_FAILED, written |-> {}, errors |-> {}]
    ELSE IF Len(a.members) > MAX_FILES
         THEN [code |-> PROJECT_INVALID_FORMAT, written |-> {}, errors |-> {}]
    ELSE IF SumSizes(a.members) > MAX_UNCOMPRESSED_SIZE
         THEN [code |-> PROJECT_INVALID_FORMAT, written |-> {}, errors |-> {}]
    ELSE IF MemberErrors(a) # {}
         THEN [code |-> PROJECT_SECURITY_VIOLATION, written |-> written_at_raise(a),
               errors |-> {a.members[i].name : i \in MemberErrors(a)}]
    ELSE [code |-> "", errors |-> {},
          written |-> {File(a.members[i].name, a.id) :
                         i \in {j \in 1..Len(a.members) : ~a.members[j].is_dir}}]

\* _detect_project_type: 'python' when some file has suffix '.py'
HasPython(files) == \E f \in files : IsPySuffix(f.name)

\* extract_project: cur is current/ before the call (<<>> when the directory
\* does not exist, <<files>> otherwise).
extract_project(cur, a) ==
    IF ~a.b64ok THEN ExtractResult(cur, FALSE, PROJECT_UPLOAD_FAILED, "", {})
    ELSE IF a.zipSize > MAX_ZIP_SIZE
         THEN ExtractResult(cur, FALSE, PROJECT_INVALID_FORMAT, "", {})
    ELSE LET zip == File("project.zip", a.id)
             ex == _safe_extract(a)
         IN IF ex.code # ""
            THEN ExtractResult(<<{zip} \cup ex.written>>, FALSE, ex.code, "", ex.errors)
            ELSE IF HasPython(ex.written)
                 THEN ExtractResult(<<ex.written>>, TRUE, "", "python", {})
                 ELSE ExtractResult(<<ex.written>>, FALSE, PROJECT_INVALID_FORMAT, "", {})

\* ------------------------------------------------ worker/python_executor
\* Attributes of the user entry module (the shape of the default project):
\* a module-level instance and its class.  Every uploaded main.py in the
\* modelled archives has this shape; the source tag tells the versions apart.
ModuleInstance == "robot_controller"
ModuleClass == "RobotController"
Objects == {ModuleInstance, ModuleClass}
Methods == {"get_status", "start_recognition"}
\* Two further outcomes of method(**args) in user code, named by what the
\* call does: it raises an Exception (a TypeError for an unexpected keyword
\* argument, say), or it returns a value json cannot encode (a set, bytes,
\* an object).
RaisingMethod == "raises_exception"
UnserializableMethod == "returns_unserializable"
\* Names a client may put in params.object / params.method.
ObjNames == Objects \cup {"no_such_object"}
MethodNames == Methods \cup {RaisingMethod, UnserializableMethod, "no_such_method"}

NoContext == [o \in ObjNames |-> 0]

\* sys.path of a fresh interpreter, and the entry load() puts in front.
BasePath == <<"site-packages">>
ProjectPath == "current"

\* PythonExecutor.__init__: no module yet, empty context.  snap_main is
\* whether loaded_modules (taken by load) holds 'main'; original_sys_path is
\* the copy of sys.path taken by the constructor.
NewExecutor ==
    [module |-> FALSE, context |-> NoContext, snap_main |-> FALSE,
     original_sys_path |-> BasePath]

\* A fresh Worker process (Worker.__init__ before the auto-load).
\* sys_main is sys.modules['main']: the source tag of the imported main.py,
\* the identity of its module-level instance, and whether the module holds
\* the injected push_message callable.  loaded_once is a ghost: some
\* PythonExecutor.load has succeeded in this process.
NewWorker ==
    [alive |-> "up", python_executor |-> <<>>, sys_main |-> <<>>,
     current_project_type |-> "", current_project_path |-> "",
     should_restart |-> FALSE, has_loaded_project |-> FALSE, instSeq |-> 0,
     loaded_once |-> FALSE, sys_path |-> BasePath]

\* The three things a handler may change, threaded through the operators.
WState(w, cur, th) == [w |-> w, cur |-> cur, th |-> th]

IsEmptyDir(cur) == cur = <<>> \/ cur[1] = {}

\* _find_entry_file
HasEntryFile(cur) == cur # <<>> /\ \E f \in cur[1] : f.name = "main.py"
EntrySource(cur) == (CHOOSE f \in cur[1] : f.name = "main.py").src

\* if hasattr(self.module, 'init'): self.module.init() -- the call raises
\* for the entry module of that source.
InitRaises(proj) == proj = "initraises"

\* PythonExecutor(...) followed by load() on the executor just stored in
\* w.python_executor.  ok is FALSE when load raises: for want of an entry
\* file, before anything is imported, or out of the module's init(), after
\* the import and the injection of push_message.
load(w, cur) ==
    LET ex0 == [w.python_executor[1] EXCEPT !.snap_main = (w.sys_main # <<>>),
                                            !.original_sys_path = w.sys_path]
        path1 == IF \E i \in 1..Len(w.sys_path) : w.sys_path[i] = ProjectPath
                 THEN w.sys_path ELSE <<ProjectPath>> \o w.sys_path
    IN IF ~HasEntryFile(cur)
       THEN [ok |-> FALSE, w |-> [w EXCEPT !.python_executor = <<ex0>>,
                                           !.sys_path = path1]]
       ELSE LET fresh == w.sys_main = <<>>
                mod == IF fresh
                       THEN [proj |-> EntrySource(cur), inst |-> w.instSeq + 1,
                             injected |-> TRUE]
                       ELSE [w.sys_main[1] EXCEPT !.injected = TRUE]
            IN [ok |-> ~InitRaises(mod.proj),
                w |-> [w EXCEPT !.python_executor = <<[ex0 EXCEPT !.module = TRUE]>>,
                                !.sys_main = <<mod>>,
                                !.instSeq = IF fresh THEN @ + 1 ELSE @,
                                !.loaded_once = IF InitRaises(mod.proj) THEN @ ELSE TRUE,
                                !.sys_path = path1]]

\* Faulty variant of restore_sys_path: the entry load() put in front is
\* popped.
restore_by_pop(path, original) == IF path = <<>> THEN <<>> ELSE Tail(path)

\* cleanup, step 4: sys.path = self.original_sys_path.copy()
restore_sys_path(path, original) == original

\* PythonExecutor.cleanup on the executor in st.w.python_executor: delete
\* the injected push_message, clear the context, evict 'main' if it was
\* imported after the snapshot, restore sys.path, drop the module
\* reference.  A user thread of the module finds push_message deleted at
\* its next round and ends (the default project's _recognition_worker).
cleanup(st) ==
    LET ex == st.w.python_executor[1]
        evict == st.w.sys_main # <<>> /\ ~ex.snap_main
        mainAfter == IF evict THEN <<>>
                     ELSE IF ex.module /\ st.w.sys_main # <<>>
                          THEN <<[st.w.sys_main[1] EXCEPT !.injected = FALSE]>>
                          ELSE st.w.sys_main
    IN WState([st.w EXCEPT !.python_executor =
                             <<[ex EXCEPT !.module = FALSE, !.context = NoContext]>>,
                           !.sys_main = mainAfter,
                           !.sys_path = restore_sys_path(@, ex.original_sys_path)],
              st.cur,
              IF ex.module THEN {} ELSE st.th)

\* Worker._cleanup_executors: cleanup, then python_executor = None.
_cleanup_executors(st) ==
    IF st.w.python_executor = <<>> THEN st
    ELSE LET c == cleanup(st)
         IN WState([c.w EXCEPT !.python_executor = <<>>], c.cur, c.th)

\* Faulty variant of stop_threads: it also empties the instance context.
stop_threads_clearing_context(st) ==
    LET ex == st.w.python_executor[1]
    IN WState([st.w EXCEPT !.python_executor = <<[ex EXCEPT !.context = NoContext]>>],
              st.cur, st.th \ {ex.context[o] : o \in ObjNames})

\* PythonExecutor.stop_threads: stop() of every instance in the context.
stop_threads(st) ==
    LET ex == st.w.python_executor[1]
    IN WState(st.w, st.cur, st.th \ {ex.context[o] : o \in ObjNames})

\* The stop hooks of user code, as stop_threads meets them.  The module's
\* top-level stop is "none" (not defined), "ok" or "raises" (an Exception);
\* the context is the sequence of its objects in dict order, each "nostop"
\* (no callable stop attribute), "ok" or "raises".  A hook is named 0 for the
\* module and i for the i-th object of the context.
HookKinds == {"ok", "raises"}

RECURSIVE CallsUntilRaise(_, _, _)
CallsUntilRaise(module, context, i) ==
    IF i > Len(context) THEN <<>>
    ELSE IF i = 0
    THEN IF module = "none" THEN CallsUntilRaise(module, context, 1)
         ELSE IF module = "raises" THEN <<0>>
         ELSE <<0>> \o CallsUntilRaise(module, context, 1)
    ELSE IF context[i] = "nostop" THEN CallsUntilRaise(module, context, i + 1)
         ELSE IF context[i] = "raises" THEN <<i>>
         ELSE <<i>> \o CallsUntilRaise(module, context, i + 1)

\* Faulty variant of stop_calls: the first hook that raises ends the round.
stop_calls_until_raise(module, context) == CallsUntilRaise(module, context, 0)

\* PythonExecutor.stop_threads, the hooks it calls in order: module.stop()
\* inside its own try/except, then obj.stop() of every context object that
\* has a callable stop, each inside its own try/except.
stop_calls(module, context) ==
    (IF module \in HookKinds THEN <<0>> ELSE <<>>)
      \o SelectSeq([i \in 1..Len(context) |-> i], LAMBDA i : context[i] \in HookKinds)

\* --------------------------------------------------------- worker/worker
\* Faulty variant of _try_load_default_project_on_init: nothing is loaded.
_no_auto_load(st, defaultExists) == st

\* Worker._try_load_default_project_on_init
_try_load_default_project_on_init(st, defaultExists) ==
    LET cur1 == IF IsEmptyDir(st.cur) /\ defaultExists THEN <<DefaultFiles>> ELSE st.cur
    IN IF IsEmptyDir(cur1) \/ ~HasPython(cur1[1])
       THEN WState(st.w, cur1, st.th)
       ELSE LET w1 == [st.w EXCEPT !.current_project_path = "current",
                                   !.current_project_type = "python",
                                   !.python_executor = <<NewExecutor>>]
                ld == load(w1, cur1)
            IN WState(IF ld.ok THEN [ld.w EXCEPT !.has_loaded_project = TRUE] ELSE ld.w,
                      cur1, st.th)

HandlerResult(st, reply) == [st |-> st, reply |-> reply]

\* Faulty variant of need_restart: every update asks for a restart.
need_restart_always(w) == TRUE

\* Faulty variant of need_restart: no update asks for a restart.
need_restart_never(w) == FALSE

\* need_restart = self._has_loaded_project (first statement of _handle_update)
need_restart(w) == w.has_loaded_project

\* Worker._handle_update; zip is the id of the uploaded archive ("" when the
\* data string is empty).
_handle_update(st, zip) ==
    LET restart == need_restart(st.w)
        st1 == _cleanup_executors(st)
    IN IF zip = ""
       THEN HandlerResult(st1, create_error_response(PROTOCOL_MISSING_FIELD, "missing zip_data"))
       ELSE LET r == extract_project(st1.cur, ArchiveById(zip))
            IN IF ~r.ok
               THEN HandlerResult(WState(st1.w, r.cur, st1.th),
                                  IF r.errors = {}
                                  THEN create_error_response(r.code, "project error")
                                  ELSE [create_error_response(r.code, "project error")
                                          EXCEPT !.message = r.errors])
               ELSE HandlerResult(
                      WState([st1.w EXCEPT !.current_project_path = "current",
                                           !.current_project_type = r.ptype,
                                           !.should_restart = IF restart THEN TRUE ELSE @],
                             r.cur, st1.th),
                      create_success_response(IF restart THEN "uploaded, worker will restart"
                                              ELSE "uploaded"))

\* Worker._start_python_project
_start_python_project(st) ==
    LET ld == load([st.w EXCEPT !.python_executor = <<NewExecutor>>], st.cur)
    IN IF ld.ok
       THEN HandlerResult(WState([ld.w EXCEPT !.has_loaded_project = TRUE], st.cur, st.th),
                          create_success_response("started"))
       ELSE HandlerResult(WState([ld.w EXCEPT !.python_executor = <<>>], st.cur, st.th),
                          create_error_response(PROJECT_LOAD_FAILED, "start failed"))

\* Worker._handle_start
_handle_start(st) ==
    IF st.w.current_project_path = "" \/ st.w.current_project_type = ""
    THEN IF IsEmptyDir(st.cur)
         THEN HandlerResult(st, create_error_response(PROJECT_NOT_FOUND, "upload first"))
         ELSE IF ~HasPython(st.cur[1])
              THEN HandlerResult(st, create_error_response(PROJECT_INVALID_FORMAT, "project error"))
              ELSE _start_python_project(
                     WState([st.w EXCEPT !.current_project_path = "current",
                                         !.current_project_type = "python"],
                            st.cur, st.th))
    ELSE IF st.w.current_project_type = "python"
         THEN _start_python_project(st)
         ELSE HandlerResult(st, create_error_response(PROJECT_INVALID_FORMAT, "unsupported type"))

\* The result a user method returns: the source tag of the code that ran.
MethodResult(w, method) == <<w.sys_main[1].proj, method>>

\* PythonExecutor.call_function with _get_object.  inst is the instance the
\* method was invoked on (0 when no object was resolved).
call_function(st, obj, method) ==
    LET ex == st.w.python_executor[1]
    IN IF ex.context[obj] # 0 \/ (ex.module /\ obj \in Objects)
       THEN LET hit == ex.context[obj] # 0
                isClass == obj = ModuleClass
                inst == IF hit THEN ex.context[obj]
                        ELSE IF isClass THEN st.w.instSeq + 1
                        ELSE st.w.sys_main[1].inst
                ex1 == [ex EXCEPT !.context[obj] = inst]
                w1 == [st.w EXCEPT !.python_executor = <<ex1>>,
                                   !.instSeq = IF ~hit /\ isClass THEN @ + 1 ELSE @]
            IN IF method \notin Methods \cup {RaisingMethod, UnserializableMethod}
               THEN [st |-> WState(w1, st.cur, st.th), inst |-> inst,
                     reply |-> Reply("error", "", "no such method", "", 0)]
               ELSE IF method = RaisingMethod
               THEN [st |-> WState(w1, st.cur, st.th), inst |-> inst,
                     reply |-> Reply("error", "", "exception message", "", 0)]
               ELSE [st |-> WState(w1, st.cur,
                                   IF method = "start_recognition"
                                   THEN st.th \cup {inst} ELSE st.th),
                     inst |-> inst,
                     reply |-> Reply("success", "", "", MethodResult(st.w, method), 0)]
       ELSE [st |-> st, inst |-> 0,
             reply |-> Reply("error", "", "object not found", "", 0)]

\* Faulty variant of _handle_process: no auto-load, 02004 at once.
_handle_process_no_auto_load(st, defaultExists, obj, method) ==
    IF st.w.python_executor = <<>>
    THEN [st |-> st, inst |-> 0, reply |-> create_error_response(PROJECT_NOT_FOUND, "")]
    ELSE IF obj = "" \/ method = ""
         THEN [st |-> st, inst |-> 0,
               reply |-> create_error_response(PROTOCOL_MISSING_FIELD, "missing object or method")]
         ELSE call_function(st, obj, method)

\* Worker._handle_process
_handle_process(st, defaultExists, obj, method) ==
    LET st1 == IF st.w.python_executor = <<>>
               THEN _try_load_default_project_on_init(st, defaultExists)
               ELSE st
    IN IF st1.w.python_executor = <<>>
       THEN [st |-> st1, inst |-> 0,
             reply |-> create_error_response(PROJECT_NOT_FOUND, "")]
       ELSE IF st1.w.current_project_type # "python"
            THEN [st |-> st1, inst |-> 0,
                  reply |-> create_error_response(PROJECT_INVALID_FORMAT, "python only")]
       ELSE IF obj = "" \/ method = ""
            THEN [st |-> st1, inst |-> 0,
                  reply |-> create_error_response(PROTOCOL_MISSING_FIELD, "missing object or method")]
       ELSE call_function(st1, obj, method)

\* Worker._handle_client_disconnect
_handle_client_disconnect(st) ==
    HandlerResult(IF st.w.python_executor # <<>> THEN stop_threads(st) ELSE st,
                  create_success_response("threads stopped"))

\* ------------------------------------------------------------- messages
\* A command-channel request {type, data}; id is a ghost field naming the
\* client command (negative for a disconnect notification of sid -id).
Msg(type, zip, obj, method, id) ==
    [type |-> type, zip |-> zip, object |-> obj, method |-> method, id |-> id]

\* The structurally valid client commands, as (command, payload) inputs.
UpdateInputs(arcs) == {Msg("update", a.id, "", "", 0) : a \in arcs}
StartInputs == {Msg("start", "", "", "", 0)}
ProcessInputs(objs, meths) ==
    {Msg("process", "", o, m, 0) : o \in objs, m \in meths}

\* Inputs of the whole-system specification: an upload (which restarts a
\* loaded Worker) and a call that starts a pushing background thread; the
\* Edge Server forwards every command type alike.  The Worker-only
\* specification takes every archive, start, and every name.
EdgeInputs ==
    UpdateInputs({ArcGoodA})
      \cup ProcessInputs({ModuleInstance}, {"start_recognition"})
WorkerInputs ==
    UpdateInputs(AllArchives) \cup StartInputs \cup ProcessInputs(ObjNames, MethodNames)
      \cup {Msg("client_disconnected", "", "", "", 0)}

\* ------------------------------------------------------ ws_server/protocol
\* The event data of a client command after _decrypt_data and the merge with
\* the event name: full_data = {'command': command, **decrypted_data}.  Each
\* field tells what the JSON holds: "absent", a value of the wrong kind
\* ("nonstring", "nonobject"), or the value ("object" for a map).
Payload(command, data, params, object, method, args) ==
    [command |-> command, data |-> data, params |-> params, object |-> object,
     method |-> method, args |-> args]

\* The payload a well-formed client sends for a command.
PayloadOf(c) ==
    CASE c.type = "update" -> Payload("update", c.zip, "absent", "absent", "absent", "absent")
      [] c.type = "process" -> Payload("process", "absent", "object", c.object, c.method, "object")
      [] OTHER -> Payload(c.type, "absent", "absent", "absent", "absent", "absent")

\* One payload for each structural violation.
InvalidPayloads ==
    {Payload("update", "absent", "absent", "absent", "absent", "absent"),
     Payload("update", "nonstring", "absent", "absent", "absent", "absent"),
     Payload("process", "absent", "absent", "absent", "absent", "absent"),
     Payload("process", "absent", "nonobject", "absent", "absent", "absent"),
     Payload("process", "absent", "object", "absent", "get_status", "absent"),
     Payload("process", "absent", "object", ModuleInstance, "absent", "absent"),
     Payload("process", "absent", "object", ModuleInstance, "get_status", "nonobject"),
     Payload("bogus", "absent", "absent", "absent", "absent", "absent")}

EdgePayloads == {PayloadOf(c) : c \in EdgeInputs} \cup InvalidPayloads

\* The result of validate_command: the Worker message built from the
\* payload, or the ProtocolError raised (error is its message).
Validated(msg) == [ok |-> TRUE, msg |-> msg, error |-> ""]
ProtocolError(message) == [ok |-> FALSE, msg |-> Msg("", "", "", "", 0), error |-> message]

\* Faulty variant of validate_command: every payload is passed on.
validate_command_accepts_all(d) == Validated(Msg(d.command, d.data, d.object, d.method, 0))

validate_update_command(d) ==
    IF d.data = "absent" THEN ProtocolError("UPDATE command requires 'data' field")
    ELSE IF d.data = "nonstring" THEN ProtocolError("'data' field must be a base64 string")
    ELSE Validated(Msg("update", d.data, "", "", 0))

validate_start_command(d) == Validated(Msg("start", "", "", "", 0))

validate_process_command(d) ==
    IF d.params = "absent" THEN ProtocolError("PROCESS command requires 'params' field")
    ELSE IF d.params # "object" THEN ProtocolError("'params' must be an object")
    ELSE IF d.object = "absent" THEN ProtocolError("'params' must contain 'object' field")
    ELSE IF d.method = "absent" THEN ProtocolError("'params' must contain 'method' field")
    ELSE IF d.args \notin {"absent", "object"} THEN ProtocolError("'args' must be an object")
    ELSE Validated(Msg("process", "", d.object, d.method, 0))

validate_command(d) ==
    CASE d.command = "update" -> validate_update_command(d)
      [] d.command = "start" -> validate_start_command(d)
      [] d.command = "process" -> validate_process_command(d)
      [] OTHER -> ProtocolError("Unknown command")

\* ------------------------------------------------- utils/crypto_js_compat
\* Bytes are small numbers.  1 and 2 are the padding bytes (control
\* characters in a text), 3 is '{', 4 is '}', 5 is a digit, 0 is any other
\* byte.  AES.block_size is scaled down to BLOCK_SIZE.
BLOCK_SIZE == 2
Bytes == 0..5

\* A structured map is [type |-> "map", members |-> a sequence of digits];
\* a JSON text may also be a bare number.
JsonMap(members) == [type |-> "map", members |-> members]
NoData == [type |-> "none", members |-> <<>>]

\* json.dumps of a map: '{' members '}'.
json_dumps(m) == <<3>> \o m.members \o <<4>>

\* json.loads: a map, a number, or ValueError (ok is FALSE).
json_loads(t) ==
    IF Len(t) >= 2 /\ t[1] = 3 /\ t[Len(t)] = 4 /\ \A i \in 2..(Len(t) - 1) : t[i] = 5
    THEN [ok |-> TRUE, value |-> JsonMap(SubSeq(t, 2, Len(t) - 1))]
    ELSE IF Len(t) >= 1 /\ \A i \in 1..Len(t) : t[i] = 5
    THEN [ok |-> TRUE, value |-> [type |-> "number", members |-> t]]
    ELSE [ok |-> FALSE, value |-> NoData]

\* CryptoJSAES._evp_kdf: key and IV are a function of passphrase and salt
\* (MD5 is taken as collision-free: the pair stands for its digest).
_evp_kdf(passphrase, salt) == [key |-> <<passphrase, salt, "key">>, iv |-> <<passphrase, salt, "iv">>]

\* AES-CBC.  A ciphertext is the term [key, iv, plain]: decrypting it under
\* the key and IV it was made with gives plain back; under any other key the
\* cipher is another permutation, and its value on this ciphertext is some
\* byte string of the same length (garble).
AES_encrypt(k, padded) == [key |-> k.key, iv |-> k.iv, plain |-> padded]
AES_decrypt(k, ciphertext, garble) ==
    IF k.key = ciphertext.key /\ k.iv = ciphertext.iv THEN ciphertext.plain ELSE garble

\* PKCS7 padding as encrypt applies it.
Pkcs7(plaintext) ==
    LET pad_length == BLOCK_SIZE - (Len(plaintext) % BLOCK_SIZE)
    IN plaintext \o [i \in 1..pad_length |-> pad_length]

\* CryptoJSAES.encrypt with the salt that get_random_bytes drew: the base64
\* text of "Salted__" + salt + ciphertext.
encrypt(passphrase, data, salt) ==
    [b64 |-> TRUE, prefix |-> "Salted__", salt |-> salt,
     ciphertext |-> AES_encrypt(_evp_kdf(passphrase, salt), Pkcs7(json_dumps(data)))]

DecryptFailure == [ok |-> FALSE, data |-> NoData]

\* CryptoJSAES.decrypt: (success, data).  The padding is removed by the
\* value of the last byte alone: plaintext_padded[:-pad_length].
decrypt(passphrase, encrypted, garble) ==
    IF ~encrypted.b64 \/ encrypted.prefix # "Salted__" THEN DecryptFailure
    ELSE LET plaintext_padded ==
                 AES_decrypt(_evp_kdf(passphrase, encrypted.salt), encrypted.ciphertext, garble)
             pad_length == plaintext_padded[Len(plaintext_padded)]
             plaintext == IF pad_length = 0 \/ pad_length >= Len(plaintext_padded)
                          THEN <<>>
                          ELSE SubSeq(plaintext_padded, 1, Len(plaintext_padded) - pad_length)
             parsed == json_loads(plaintext)
         IN IF parsed.ok THEN [ok |-> TRUE, data |-> parsed.value] ELSE DecryptFailure

\* The inputs: a map, the passphrase of the sender, the passphrase of the
\* receiver, the salt drawn, and the other permutation's value.
Passphrases == {"ROBOT_CONTROL_SYSTEM", "key2"}
CryptoInputs ==
    UNION {{[kind |-> "plain", data |-> m, passphrase |-> p, other |-> q, salt |-> salt,
             garble |-> g]
              : p \in Passphrases, q \in Passphrases, salt \in {1, 2},
                g \in [1..Len(Pkcs7(json_dumps(m))) -> Bytes]}
             : m \in {JsonMap(<<>>), JsonMap(<<5>>)}}
\* Payloads that are no envelope: not base64, or without the "Salted__" prefix.
ForeignInputs ==
    {[kind |-> "payload", passphrase |-> p, other |-> p, data |-> NoData, garble |-> <<0, 0>>,
      encrypted |-> [b64 |-> b, prefix |-> IF b THEN "other" ELSE "", salt |-> 0,
                     ciphertext |-> AES_encrypt(_evp_kdf("", 0), <<0, 0>>)]]
       : p \in Passphrases, b \in BOOLEAN}

\* ------------------------------------------------------------ utils/auth
\* A string is a sequence of words and separators: " " is a space, "%20" its
\* percent-encoding; the empty sequence stands for both '' and None.
\* Faulty variant of unquote: nothing is decoded.
unquote_nothing(value) == value
\* urllib.parse.unquote
unquote(value) == [i \in 1..Len(value) |-> IF value[i] = "%20" THEN " " ELSE value[i]]

RECURSIVE strip(_)
strip(t) ==
    IF t # <<>> /\ t[1] = " " THEN strip(Tail(t))
    ELSE IF t # <<>> /\ t[Len(t)] = " " THEN strip(SubSeq(t, 1, Len(t) - 1))
    ELSE t

\* token.lower().startswith('bearer ') and token[7:].strip()
StripBearer(token) ==
    IF Len(token) >= 2 /\ token[1] \in {"Bearer", "bearer"} /\ token[2] = " "
    THEN strip(SubSeq(token, 3, Len(token)))
    ELSE token

\* The value a dict built from the pairs holds for key (the last one wins);
\* pairs without '=' are skipped.
RECURSIVE ParamsGet(_, _)
ParamsGet(pairs, key) ==
    IF pairs = <<>> THEN <<>>
    ELSE LET last == pairs[Len(pairs)]
         IN IF last.eq /\ last.key = key THEN unquote(last.value)
            ELSE ParamsGet(SubSeq(pairs, 1, Len(pairs) - 1), key)

\* TokenExtractor.extract_from_query_string; the query string is given as
\* its '&'-separated pairs.
extract_from_query_string(query_string) ==
    LET token == IF ParamsGet(query_string, "token") # <<>>
                 THEN ParamsGet(query_string, "token")
                 ELSE ParamsGet(query_string, "auth")
    IN StripBearer(token)

\* TokenExtractor.extract_from_headers; auth_header is the Authorization
\* header (<<>> when absent).
extract_from_headers(auth_header) ==
    LET parts == SelectSeq(auth_header, LAMBDA w : w # " ")
    IN IF Len(parts) = 2 /\ parts[1] \in {"Bearer", "bearer"} THEN <<parts[2]>> ELSE <<>>

\* TokenExtractor.extract_from_auth; auth is <<>> (None or {}) or <<dict>>.
extract_from_auth(auth) ==
    IF auth = <<>> \/ ~auth[1].hasToken THEN <<>> ELSE StripBearer(auth[1].token)

\* TokenExtractor.extract_from_environ
extract_from_environ(environ, auth) ==
    IF auth # <<>> /\ extract_from_auth(auth) # <<>> THEN extract_from_auth(auth)
    ELSE IF extract_from_headers(environ.HTTP_AUTHORIZATION) # <<>>
    THEN extract_from_headers(environ.HTTP_AUTHORIZATION)
    ELSE extract_from_query_string(environ.QUERY_STRING)

\* Handshake inputs, each with the credential it carries (cred, <<>> for
\* none): the auth object, the Authorization header, the query string.
AuthDict(hasToken, token) == <<[hasToken |-> hasToken, token |-> token]>>
AuthOptions ==
    {[raw |-> <<>>, cred |-> <<>>],
     [raw |-> AuthDict(FALSE, <<>>), cred |-> <<>>],
     [raw |-> AuthDict(TRUE, <<"a">>), cred |-> <<"a">>],
     [raw |-> AuthDict(TRUE, <<"Bearer", " ", "a">>), cred |-> <<"a">>],
     [raw |-> AuthDict(TRUE, <<"Bearer", " ">>), cred |-> <<>>]}
HeaderOptions ==
    {[raw |-> <<>>, cred |-> <<>>],
     [raw |-> <<"Bearer", " ", "h">>, cred |-> <<"h">>],
     [raw |-> <<"bearer", " ", "h">>, cred |-> <<"h">>],
     [raw |-> <<"Basic", " ", "h">>, cred |-> <<>>],
     [raw |-> <<"Bearer">>, cred |-> <<>>]}
Pair(key, eq, value) == [key |-> key, eq |-> eq, value |-> value]
QueryOptions ==
    {[raw |-> <<>>, cred |-> <<>>],
     [raw |-> <<Pair("token", TRUE, <<"q">>), Pair("foo", TRUE, <<"bar">>)>>, cred |-> <<"q">>],
     [raw |-> <<Pair("auth", TRUE, <<"r">>)>>, cred |-> <<"r">>],
     [raw |-> <<Pair("token", TRUE, <<"q">>), Pair("auth", TRUE, <<"r">>)>>, cred |-> <<"q">>],
     [raw |-> <<Pair("auth", TRUE, <<"r">>), Pair("token", TRUE, <<"q">>)>>, cred |-> <<"q">>],
     [raw |-> <<Pair("token", TRUE, <<"Bearer", "%20", "q">>)>>, cred |-> <<"q">>],
     [raw |-> <<Pair("foo", TRUE, <<"bar">>)>>, cred |-> <<>>],
     [raw |-> <<Pair("token", FALSE, <<>>)>>, cred |-> <<>>]}
HandshakeInputs ==
    {[kind |-> "handshake", auth |-> a, header |-> h, query |-> q]
       : a \in AuthOptions, h \in HeaderOptions, q \in QueryOptions}

\* obs describes what the last step did, for the properties to read.
Quiet == [kind |-> "quiet"]
NoTrack == [prev |-> FALSE, loaded |-> FALSE, respawns |-> 0, zip |-> ""]

VARIABLES
    hs,               \* per sid: the position of its connect/disconnect handlers
    active_client,    \* ConnectionManager.active_client
    callback_tasks,   \* SocketIOServer.callback_tasks (sids with a listener)
    reqState,         \* REQ socket: "ready" or "awaiting" (a reply is owed)
    inflight,         \* the command the event loop is blocked on, if any
    notifyPending,    \* pool threads submitted by disconnect, not yet sending
    notifySending,    \* the pool thread inside send_json, if any
    notifyPolling,    \* the pool thread polling for its reply, if any
    reqWire,          \* requests on their way to the Worker, oldest first
    repWire,          \* replies on their way to the Edge Server, oldest first
    subQueue,         \* pushes buffered in the Edge Server's SUB socket
    subConnected,     \* SUB socket attached to the live Worker's PUB socket
    worker,           \* the Worker process and its fields
    threads,          \* instances whose user background thread is running
    fs,               \* storage/projects: current/ and default/
    cmdSeq,           \* commands issued so far
    obs,              \* ghost: what the last step did
    updTrack,         \* ghost: respawns since the last successful update
    discSnap,         \* ghost: context seen by the last client_disconnected
    supervisor,       \* main(): its position, the Edge Server process, and
                      \* Worker.running (cleared by the Worker's signal handler)
    pub               \* the callback channel: the user threads inside
                      \* pub_socket.send_json (sending) and a ghost, the
                      \* number of pushes published so far (seq)

vars == <<hs, active_client, callback_tasks, reqState, inflight, notifyPending,
          notifySending, notifyPolling, reqWire, repWire, subQueue, subConnected, worker,
          threads, fs, cmdSeq, obs, updTrack, discSnap, supervisor, pub>>

admission == <<hs, active_client, callback_tasks>>
reqSide == <<reqState, inflight, notifyPending, notifySending, notifyPolling>>
edgeVars == <<hs, active_client, callback_tasks, reqState, inflight,
              notifyPending, notifySending, notifyPolling, cmdSeq>>
workerVars == <<worker, threads, fs, updTrack, discSnap, supervisor, pub>>
wireVars == <<reqWire, repWire, subQueue, subConnected>>

\* ---------------------------------------------------------------- Init
\* The state once the Supervisor has spawned the Worker (whose constructor
\* runs the auto-load) and then the Edge Server.  default/ may or may not
\* have been shipped with the installation; current/ starts absent.
InitSystem ==
    /\ hs = [s \in Sids |-> [pc |-> "new", token |-> ""]]
    /\ active_client = <<>>
    /\ callback_tasks = {}
    /\ reqState = "ready"
    /\ inflight = <<>>
    /\ notifyPending = {}
    /\ notifySending = <<>>
    /\ notifyPolling = <<>>
    /\ reqWire = <<>>
    /\ repWire = <<>>
    /\ subQueue = <<>>
    /\ subConnected = TRUE
    /\ \E d \in BOOLEAN :
         LET st == _try_load_default_project_on_init(WState(NewWorker, <<>>, {}), d)
         IN /\ worker = st.w
            /\ fs = [current |-> st.cur, default |-> d]
            /\ threads = st.th
    /\ cmdSeq = 0
    /\ updTrack = NoTrack
    /\ discSnap = <<>>
    /\ supervisor = [pc |-> "monitor", ws_process |-> "up", running |-> TRUE]
    /\ pub = [sending |-> {}, seq |-> 0]

Init == InitSystem /\ obs = Quiet

\* ------------------------------------------- ws_server/connection_manager
\* Faulty variant of can_connect: admits whatever the slot holds.
can_connect_ignores_slot == TRUE

can_connect == active_client = <<>>

connect_socketio(sid, user_id, auth_data) ==
    IF active_client # <<>> THEN active_client
    ELSE <<[sid |-> sid, user_id |-> user_id, auth_data |-> auth_data]>>

get_current_sid == IF active_client # <<>> THEN active_client[1].sid ELSE 0

\* Faulty variant of ConnectionManager.disconnect: the slot is not cleared.
cm_disconnect_keeps_slot == active_client

\* ConnectionManager.disconnect: the slot after the call.
cm_disconnect == <<>>



\* ----------------------------------------------------- ws_server/server
\* The event loop runs one handler step at a time and runs none while
\* _handle_command is blocked inside send_command.
LoopFree == inflight = <<>>

\* The refusal strings raised by connect: "<error_code>:<message>".
RefusalString(code, message) == <<code, ":", message>>
RefuseMissing == RefusalString(AUTH_TOKEN_MISSING, "missing token")

\* Faulty variant of RefuseInvalid: the code of the missing-token refusal.
RefuseInvalid_with_missing_code == RefusalString(AUTH_TOKEN_MISSING, "token invalid or expired")

RefuseInvalid == RefusalString(AUTH_TOKEN_INVALID, "token invalid or expired")
RefuseOccupied ==
    LET r == create_error_response(CONNECTION_REJECTED, "")
    IN RefusalString(r.error_code, r.message)
RefuseInternal == <<"Internal server error">>

\* What TokenExtractor.extract_from_environ returned: "" is None, "tok" a
\* bearer string (whether it is valid is the identity service's answer).
Tokens == {"", "tok"}

\* What _verify_token_remote may return: "none" is None or an empty body
\* (non-200, or an error while verifying), "claims" the claims map of a 200
\* answer, "nondict" a 200 body that is not a map.
VerifyOutcomes == {"none", "claims", "nondict"}

\* payload.get('user_id', 'anonymous')
UserIdOf(payload) == IF payload = "claims" THEN "u1" ELSE "anonymous"

\* Socket.IO gives every connection a sid of its own.
FreshSid(s) == hs[s].pc = "new" /\ \A t \in Sids : t < s => hs[t].pc # "new"

\* Sessions that connect admitted and whose disconnect handler has not
\* finished.
Admitted == {s \in Sids : hs[s].pc \in {"connected", "cancelling"}}

\* What a refused handshake did: its inputs, the refusal string, and whether
\* it left the slot (with the session triple) and the listener tasks alone.
Refused(s, token, payload, refusal) ==
    [kind |-> "refused", sid |-> s, token |-> token, payload |-> payload,
     occupied |-> (active_client # <<>>), refusal |-> refusal,
     slotKept |-> (active_client' = active_client),
     tasksKept |-> (callback_tasks' = callback_tasks),
     wireKept |-> (reqWire' = reqWire),
     workerKept |-> (worker' = worker /\ threads' = threads /\ fs' = fs)]

\* Faulty variant of StartListener: the task is created before the checks.
StartListener_before_checks(s, admitted) == callback_tasks \cup {s}

\* self.callback_tasks[sid] = asyncio.create_task(...), reached only when no
\* check of connect has refused.
StartListener(s, admitted) ==
    IF admitted THEN callback_tasks \cup {s} ELSE callback_tasks

\* connect, up to the suspension at `await self._verify_token_remote(token)`.
ConnectBegin(s, token) ==
    /\ LoopFree
    /\ FreshSid(s)
    /\ UNCHANGED <<workerVars, wireVars>>
    /\ IF token = ""
       THEN /\ hs' = [hs EXCEPT ![s].pc = "done"]
            /\ UNCHANGED active_client
            /\ callback_tasks' = StartListener(s, FALSE)
            /\ obs' = Refused(s, token, "none", RefuseMissing)
       ELSE /\ hs' = [hs EXCEPT ![s] = [pc |-> "verifying", token |-> token]]
            /\ obs' = Quiet
            /\ UNCHANGED <<active_client, callback_tasks>>
    /\ UNCHANGED <<reqSide, cmdSeq>>

\* connect, from the resumption with the verification result to its return.
ConnectResume(s, payload) ==
    /\ LoopFree
    /\ hs[s].pc = "verifying"
    /\ UNCHANGED <<workerVars, wireVars>>
    /\ LET refusal == IF payload = "none" THEN RefuseInvalid
                      ELSE IF payload = "nondict" THEN RefuseInternal
                      ELSE IF ~can_connect THEN RefuseOccupied
                      ELSE <<>>
           admitted == refusal = <<>>
       IN /\ hs' = [hs EXCEPT ![s] = [pc |-> IF admitted THEN "connected" ELSE "done",
                                      token |-> ""]]
          /\ active_client' = IF admitted
                              THEN connect_socketio(s, UserIdOf(payload), payload)
                              ELSE active_client
          /\ callback_tasks' = StartListener(s, admitted)
          /\ obs' = IF admitted THEN Quiet
                    ELSE Refused(s, hs[s].token, payload, refusal)
    /\ UNCHANGED <<reqSide, cmdSeq>>

\* disconnect, up to `await self.callback_tasks[sid]` after cancel().  The
\* pool thread that was inside receive_callback when the task was cancelled
\* still finishes its poll: a push it takes from the SUB socket is discarded.
DisconnectCancel(s, lose) ==
    /\ LoopFree
    /\ hs[s].pc = "connected"
    /\ s \in callback_tasks
    /\ hs' = [hs EXCEPT ![s].pc = "cancelling"]
    /\ IF lose
       THEN /\ subQueue # <<>>
            /\ subQueue' = Tail(subQueue)
       ELSE UNCHANGED subQueue
    /\ obs' = Quiet
    /\ UNCHANGED <<active_client, callback_tasks, reqSide, cmdSeq>>
    /\ UNCHANGED <<workerVars, reqWire, repWire, subConnected>>

\* Faulty variant of del_callback_task: the entry stays.
del_callback_task_skipped(s) == callback_tasks

\* del self.callback_tasks[sid], after the cancelled task has been awaited.
del_callback_task(s) == callback_tasks \ {s}

\* Faulty variant of is_current: every disconnecting sid passes.
is_current_any(s) == TRUE

\* if self.conn_mgr.get_current_sid() == sid
is_current(s) == get_current_sid = s

\* disconnect, from the cancelled task's end to the submission of the
\* notification to the worker pool (run_in_executor).
DisconnectRelease(s) ==
    /\ LoopFree
    /\ hs[s].pc = "cancelling"
    /\ hs' = [hs EXCEPT ![s].pc = "done"]
    /\ callback_tasks' = del_callback_task(s)
    /\ IF is_current(s)
       THEN /\ active_client' = cm_disconnect
            /\ notifyPending' = notifyPending \cup {s}
       ELSE UNCHANGED <<active_client, notifyPending>>
    /\ obs' = [kind |-> "released", sid |-> s, notify |-> (get_current_sid = s)]
    /\ UNCHANGED <<reqState, inflight, notifySending, notifyPolling, cmdSeq>>
    /\ UNCHANGED <<workerVars, wireVars>>

\* disconnect for a sid that has no callback task (its handshake was
\* refused, or its disconnect has already run): the handler has nothing to
\* await and runs to its end in one step.
DisconnectOther(s) ==
    /\ LoopFree
    /\ hs[s].pc = "done"
    /\ s \notin callback_tasks
    /\ IF is_current(s)
       THEN /\ active_client' = cm_disconnect
            /\ notifyPending' = notifyPending \cup {s}
       ELSE UNCHANGED <<active_client, notifyPending>>
    /\ obs' = [kind |-> "disconnected", sid |-> s,
               slotKept |-> (active_client' = active_client),
               notify |-> (notifyPending' # notifyPending)]
    /\ UNCHANGED <<hs, callback_tasks, reqState, inflight, notifySending,
                   notifyPolling, cmdSeq>>
    /\ UNCHANGED <<workerVars, wireVars>>

\* ------------------------------------------------------ ipc/zmq_manager
\* req_socket.send_json of send_command.  A REQ socket that owes a recv
\* refuses the send (zmq.ZMQError, EFSM); otherwise the request leaves.
\* send_command takes no lock and the socket is not thread-safe: a thread
\* that passed this test writes its request even if the other thread has
\* sent in between.
SendAccepted == reqState = "ready"

\* send_command(disconnect_msg, timeout=1000) on a pool thread: send_json
\* is entered and the state test made.
NotifySendBegin(s) ==
    /\ s \in notifyPending
    /\ notifySending = <<>>
    /\ notifyPending' = notifyPending \ {s}
    /\ IF SendAccepted
       THEN /\ notifySending' = <<s>>
            /\ obs' = Quiet
       ELSE /\ obs' = Quiet
            /\ UNCHANGED notifySending
    /\ UNCHANGED <<admission, reqState, inflight, notifyPolling, cmdSeq>>
    /\ UNCHANGED <<workerVars, wireVars>>

\* ... the request is written and the thread goes on to poll(timeout).
\* owed tells whether a reply to an earlier request was outstanding.
NotifySendEnd ==
    /\ notifySending # <<>>
    /\ reqWire' = Append(reqWire, Msg("client_disconnected", "", "", "", 0 - notifySending[1]))
    /\ obs' = [kind |-> "notify_sent", sid |-> notifySending[1],
               owed |-> (reqState = "awaiting")]
    /\ reqState' = "awaiting"
    /\ notifyPolling' = notifySending
    /\ notifySending' = <<>>
    /\ UNCHANGED <<admission, inflight, notifyPending, cmdSeq>>
    /\ UNCHANGED <<workerVars, repWire, subQueue, subConnected>>

\* ... poll(timeout) saw a reply: recv_json.
NotifyRecv ==
    /\ notifyPolling # <<>>
    /\ repWire # <<>>
    /\ repWire' = Tail(repWire)
    /\ reqState' = "ready"
    /\ notifyPolling' = <<>>
    /\ obs' = Quiet
    /\ UNCHANGED <<admission, inflight, notifyPending, notifySending, cmdSeq>>
    /\ UNCHANGED <<workerVars, reqWire, subQueue, subConnected>>

\* Faulty variant of poll_expired: the poll waits without a limit.
poll_never_expires == FALSE
\* req_socket.poll(timeout) returns 0: no reply arrived within the timeout.
poll_expired == repWire = <<>>

\* Faulty variant of socket_after_timeout: the REQ socket is reopened.
socket_reset_on_timeout(state) == "ready"
\* The REQ socket after the else branch of send_command's poll: the branch
\* logs and raises, and touches neither the socket nor its state.
socket_after_timeout(state) == state

\* ... poll(timeout) ran out: TimeoutError; the socket is left as it is.
NotifyTimeout ==
    /\ notifyPolling # <<>>
    /\ poll_expired
    /\ notifyPolling' = <<>>
    /\ reqState' = socket_after_timeout(reqState)
    /\ UNCHANGED <<admission, inflight, notifyPending, notifySending, cmdSeq>>
    /\ UNCHANGED <<workerVars, wireVars>>
    /\ obs' = [kind |-> "timeout", raised |-> "TimeoutError",
               socketKept |-> (reqState' = reqState /\ reqWire' = reqWire /\ repWire' = repWire)]

\* The value returned to the client as the acknowledgement of command id.
Ack(s, id, reply) == [kind |-> "ack", sid |-> s, id |-> id, reply |-> reply]

\* The `except ProtocolError as e` clause of _handle_command:
\* create_error_response(e.error_code, e.message).  ProtocolError defines
\* neither attribute, so evaluating the arguments raises AttributeError; it
\* is raised inside an except clause, the `except Exception` clause beside it
\* does not apply, and the event handler ends with the exception: no value
\* is returned and the client receives no acknowledgement (<<>>).
ProtocolErrorResponse(e) == <<>>

\* What a command that failed validation did: the acknowledgement, if any,
\* and whether the command channel and the Worker were left alone.
Rejected(s, e, data) ==
    [kind |-> "rejected", sid |-> s, ack |-> ProtocolErrorResponse(e),
     decrypted |-> (data.enc # "garbage"),
     wireKept |-> (reqWire' = reqWire),
     workerKept |-> (worker' = worker /\ threads' = threads /\ fs' = fs)]

\* The data of a command event: a map sent in the clear ("plain"), a string
\* that decrypts to a map ("envelope"), or a string that does not decrypt
\* ("garbage").
EventData(enc, map) == [enc |-> enc, map |-> map]
Garbled == EventData("garbage", Payload("", "absent", "absent", "absent", "absent", "absent"))

\* SocketIOServer._decrypt_data: the decrypted map, the map itself when it
\* came in the clear, and {} when decrypt fails.
_decrypt_data(data) ==
    IF data.enc = "garbage"
    THEN Payload("", "absent", "absent", "absent", "absent", "absent")
    ELSE data.map

\* _handle_command(sid, command, data) for a command event of session s, up
\* to the blocking recv_json inside send_command (or to its return when the
\* payload fails validation, or when the send raises and the generic
\* handler answers 99001).  full_data is {'command': command, **decrypted}:
\* a 'command' key of the payload wins.  valid and decrypted are ghost
\* fields: whether the payload is one of the well-formed ones, and whether
\* the event data was not a string that fails to decrypt.
CommandEvent(s, command, data) ==
    /\ LoopFree
    /\ hs[s].pc = "connected"
    /\ UNCHANGED <<admission, notifyPending, notifySending, notifyPolling>>
    /\ UNCHANGED <<workerVars, repWire, subQueue, subConnected>>
    /\ LET decrypted_data == _decrypt_data(data)
           d == IF decrypted_data.command = ""
                THEN [decrypted_data EXCEPT !.command = command]
                ELSE decrypted_data
           v == validate_command(d)
       IN IF ~v.ok
          THEN /\ UNCHANGED <<reqWire, reqState, inflight, cmdSeq>>
               /\ obs' = Rejected(s, v, data)
          ELSE /\ cmdSeq < MaxCmds
               /\ cmdSeq' = cmdSeq + 1
               /\ IF SendAccepted
                  THEN /\ reqWire' = Append(reqWire, [v.msg EXCEPT !.id = cmdSeq + 1])
                       /\ reqState' = "awaiting"
                       /\ inflight' = <<[sid |-> s, id |-> cmdSeq + 1]>>
                       /\ obs' = [kind |-> "forwarded", sid |-> s,
                                  valid |-> (d \notin InvalidPayloads),
                                  decrypted |-> (data.enc # "garbage"),
                                  type |-> v.msg.type]
                  ELSE /\ obs' = Ack(s, cmdSeq + 1,
                                     create_error_response(INTERNAL_ERROR, "try again later"))
                       /\ UNCHANGED <<reqWire, reqState, inflight>>

\* A command event whose data is the map d, sent in the clear.
Command(s, d) == CommandEvent(s, d.command, EventData("plain", d))

\* ... recv_json returns; the reply is the event's acknowledgement
\* (_wrap_response with encryption disabled returns it unchanged).
CommandReturn ==
    /\ inflight # <<>>
    /\ repWire # <<>>
    /\ obs' = Ack(inflight[1].sid, inflight[1].id, Head(repWire))
    /\ repWire' = Tail(repWire)
    /\ reqState' = "ready"
    /\ inflight' = <<>>
    /\ UNCHANGED <<admission, notifyPending, notifySending, notifyPolling, cmdSeq>>
    /\ UNCHANGED <<workerVars, reqWire, subQueue, subConnected>>

\* Faulty variant of receive_callback: the newest buffered push is returned.
receive_newest(q) == q[Len(q)]
\* ZMQManager.receive_callback when poll found a message: recv_json returns
\* the oldest push the SUB socket buffers.
receive_callback(q) == Head(q)

\* One round of _listen_callbacks(sid) that received a push: emit to room sid.
ListenerDeliver(s) ==
    /\ LoopFree
    /\ s \in callback_tasks
    /\ hs[s].pc = "connected"
    /\ subQueue # <<>>
    /\ LET e == receive_callback(subQueue)
       IN obs' = [kind |-> "emit", to |-> s, adm |-> e.adm, th |-> e.th, n |-> e.n]
    /\ subQueue' = Tail(subQueue)
    /\ UNCHANGED <<edgeVars>>
    /\ UNCHANGED <<workerVars, reqWire, repWire, subConnected>>

\* ------------------------------------------------- worker/worker: run loop
\* Worker._handle_command: dispatch on the command type.
_handle_command(st, defaultExists, m) ==
    CASE m.type = "update" ->
           LET r == _handle_update(st, m.zip)
           IN [st |-> r.st, inst |-> 0, reply |-> r.reply]
      [] m.type = "start" ->
           LET r == _handle_start(st)
           IN [st |-> r.st, inst |-> 0, reply |-> r.reply]
      [] m.type = "process" -> _handle_process(st, defaultExists, m.object, m.method)
      [] m.type = "client_disconnected" ->
           LET r == _handle_client_disconnect(st)
           IN [st |-> r.st, inst |-> 0, reply |-> r.reply]
      [] OTHER ->
           [st |-> st, inst |-> 0,
            reply |-> create_error_response(PROTOCOL_UNKNOWN_COMMAND, "unknown command type")]

\* Ghost bookkeeping for a handled command m with reply rep: a successful
\* update starts the count of respawns, any other command ends it.
TrackUpdate(m, rep) ==
    IF m.type = "update" /\ rep.status = "success"
    THEN [prev |-> TRUE, loaded |-> worker.has_loaded_project, respawns |-> 0,
          zip |-> m.zip]
    ELSE NoTrack

\* ... the context a client_disconnected saw, kept over process commands
\* and dropped by update and start.
TrackSnap(m, st) ==
    IF st.w.should_restart THEN <<>>
    ELSE IF m.type = "client_disconnected"
    THEN IF st.w.python_executor # <<>> THEN <<st.w.python_executor[1].context>> ELSE <<>>
    ELSE IF m.type = "process" THEN discSnap
    ELSE <<>>

\* What the Worker's step did: the command, the reply, the instance a
\* process call was dispatched to, the instance the context held for that
\* name at the last client_disconnected, for a successful update that
\* directly follows a successful update the respawns in between, and whether
\* the handler left the Worker's fields and current/ as they were.
Handled(m, r) ==
    [kind |-> "handled", type |-> m.type, zip |-> m.zip, object |-> m.object,
     method |-> m.method, reply |-> r.reply, inst |-> r.inst,
     snap |-> IF m.type = "process" /\ discSnap # <<>> THEN discSnap[1][m.object] ELSE 0,
     pair |-> IF m.type = "update" /\ r.reply.status = "success" /\ updTrack.prev
              THEN updTrack.respawns ELSE -1,
     pairLoaded |-> updTrack.prev /\ updTrack.loaded,
     workerKept |-> (r.st.w = worker), currentKept |-> (r.st.cur = fs.current),
     replied |-> (repWire' # repWire), loadedBefore |-> worker.loaded_once,
     replies |-> Len(repWire') - Len(repWire),
     sid |-> IF m.type = "client_disconnected" THEN 0 - m.id ELSE 0,
     before |-> IF m.type = "update" /\ r.reply.status = "error"
                   /\ worker.python_executor # <<>>
                THEN fs.current ELSE <<>>]

\* ZMQManager.send_response: rep_socket.send_json(msg) raises TypeError when
\* the reply holds a value json cannot encode.
send_json_raises(reply) ==
    reply.result # "" /\ reply.result[2] = UnserializableMethod

\* One round of Worker.run: receive_command, _handle_command, send_response,
\* and, when the restart flag is set or `running` has been cleared by the
\* signal handler, the end of the loop, _cleanup and exit 0.  When
\* send_response raises, nothing is sent, `except Exception: raise` ends the
\* loop and the process exits with a non-zero code ("crashed").
WorkerHandle ==
    /\ worker.alive = "up"
    /\ reqWire # <<>>
    /\ LET m == Head(reqWire)
           r == _handle_command(WState(worker, fs.current, threads), fs.default, m)
       IN /\ repWire' = IF send_json_raises(r.reply) THEN repWire
                        ELSE Append(repWire, [r.reply EXCEPT !.re = m.id])
          /\ IF send_json_raises(r.reply)
             THEN /\ worker' = [NewWorker EXCEPT !.alive = "crashed"]
                  /\ threads' = {}
             ELSE IF r.st.w.should_restart \/ ~supervisor.running
             THEN /\ worker' = [NewWorker EXCEPT !.alive = "exit0"]
                  /\ threads' = {}
             ELSE /\ worker' = r.st.w
                  /\ threads' = r.st.th
          /\ fs' = [fs EXCEPT !.current = r.st.cur]
          /\ updTrack' = TrackUpdate(m, r.reply)
          /\ discSnap' = TrackSnap(m, r.st)
          /\ obs' = Handled(m, r)
    /\ reqWire' = Tail(reqWire)
    /\ pub' = IF worker'.alive = "up" THEN pub ELSE [pub EXCEPT !.sending = {}]
    /\ UNCHANGED <<edgeVars, subQueue, subConnected, supervisor>>

\* A user background thread calls the injected push_message:
\* Worker._handle_push_message -> ZMQManager.send_callback (PUB socket).  The
\* push reaches the Edge Server's SUB socket if it is attached, else is lost.
\* adm is a ghost field: the sid admitted at the time of the call (0: none).
UserPush ==
    /\ worker.alive = "up"
    /\ threads # {}
    /\ worker.sys_main # <<>> /\ worker.sys_main[1].injected
    /\ IF subConnected /\ Len(subQueue) < MaxPush
       THEN subQueue' = Append(subQueue, [adm |-> get_current_sid, th |-> 0, n |-> 0])
       ELSE UNCHANGED subQueue
    /\ obs' = Quiet
    /\ UNCHANGED <<edgeVars, workerVars>>
    /\ UNCHANGED <<reqWire, repWire, subConnected>>

\* push_message in two steps, for the push specification.  PushBegin: user
\* thread t calls the injected push_message; Worker._handle_push_message
\* builds the message and enters ZMQManager.send_callback, which checks the
\* role and calls pub_socket.send_json(msg), taking no lock.  The push gets
\* the next publish number.
PushBegin(t) ==
    /\ worker.alive = "up"
    /\ t \in threads
    /\ worker.sys_main # <<>> /\ worker.sys_main[1].injected
    /\ \A e \in pub.sending : e.th # t
    /\ pub.seq < MaxPublish
    /\ pub' = [pub EXCEPT !.seq = @ + 1,
                          !.sending = @ \cup {[adm |-> get_current_sid, th |-> t,
                                               n |-> pub.seq + 1]}]
    /\ obs' = Quiet
    /\ UNCHANGED <<edgeVars, wireVars>>
    /\ UNCHANGED <<worker, threads, fs, updTrack, discSnap, supervisor>>

\* PushEnd: pub_socket.send_json of thread t returns.  The push is buffered by
\* the Edge Server's SUB socket if that is attached and below its high-water
\* mark, else it is dropped.  A zmq socket is not thread-safe: of two sends
\* that overlapped, either may also be lost.
PushEnd(t, lost) ==
    /\ worker.alive = "up"
    /\ \E e \in pub.sending :
         /\ e.th = t
         /\ lost => Cardinality(pub.sending) > 1
         /\ subQueue' = IF subConnected /\ Len(subQueue) < MaxBacklog /\ ~lost
                        THEN Append(subQueue, e) ELSE subQueue
         /\ pub' = [pub EXCEPT !.sending = @ \ {e}]
    /\ obs' = Quiet
    /\ UNCHANGED <<edgeVars, reqWire, repWire, subConnected>>
    /\ UNCHANGED <<worker, threads, fs, updTrack, discSnap, supervisor>>

\* The SUB socket reconnects to the PUB socket the respawned Worker bound.
SubReconnect ==
    /\ ~subConnected
    /\ worker.alive = "up"
    /\ subConnected' = TRUE
    /\ obs' = Quiet
    /\ UNCHANGED <<edgeVars, workerVars, reqWire, repWire, subQueue>>

\* ------------------------------------------------------------ main.py
\* The Supervisor's poll finds the Worker dead with exit code 0 and starts
\* a new Worker process, whose constructor runs the auto-load.
is_alive(p) == p = "up"
\* Faulty variant of exitcode: every dead Worker looks like a clean exit.
exitcode_always_zero(p) == 0
\* Process.exitcode of a dead child.
exitcode(p) == IF p = "exit0" THEN 0 ELSE 1

\* Faulty variant of respawn_due: the monitor loop starts a Worker at
\* every round.
respawn_due_always(p) == TRUE

\* if worker_process and not worker_process.is_alive(): ... if exit_code == 0
respawn_due(p) == ~is_alive(p) /\ exitcode(p) = 0

\* The monitor loop finds the Worker dead with exit code 0 and calls
\* start_worker_process; the new Worker's constructor runs the auto-load.
\* previous is a ghost: the state of the Worker process found.
SupervisorRespawn ==
    /\ supervisor.pc = "monitor"
    /\ respawn_due(worker.alive)
    /\ LET st == _try_load_default_project_on_init(WState(NewWorker, fs.current, {}), fs.default)
       IN /\ worker' = st.w
          /\ fs' = [fs EXCEPT !.current = st.cur]
          /\ threads' = st.th
    /\ updTrack' = IF updTrack.prev THEN [updTrack EXCEPT !.respawns = @ + 1] ELSE updTrack
    /\ subConnected' = FALSE
    /\ obs' = [kind |-> "spawned", previous |-> worker.alive]
    /\ UNCHANGED <<edgeVars, discSnap, reqWire, repWire, subQueue, supervisor, pub>>

\* The frame of a Supervisor step that starts no process.
SupervisorFrame ==
    /\ obs' = Quiet
    /\ UNCHANGED <<edgeVars, wireVars, threads, fs, updTrack, discSnap, pub>>

\* The monitor loop finds the Worker dead with a non-zero exit code: break.
SupervisorWorkerCrashed ==
    /\ supervisor.pc = "monitor"
    /\ ~is_alive(worker.alive) /\ exitcode(worker.alive) # 0
    /\ supervisor' = [supervisor EXCEPT !.pc = "teardown"]
    /\ UNCHANGED worker
    /\ SupervisorFrame

\* The monitor loop finds the Edge Server process dead: break.
SupervisorEdgeDied ==
    /\ supervisor.pc = "monitor"
    /\ ~is_alive(supervisor.ws_process)
    /\ supervisor' = [supervisor EXCEPT !.pc = "teardown"]
    /\ UNCHANGED worker
    /\ SupervisorFrame

\* KeyboardInterrupt in the monitor loop.
Interrupt ==
    /\ supervisor.pc = "monitor"
    /\ supervisor' = [supervisor EXCEPT !.pc = "teardown"]
    /\ UNCHANGED worker
    /\ SupervisorFrame

\* The Edge Server process ends on its own (for whatever reason).
EdgeExit ==
    /\ supervisor.pc = "monitor"
    /\ is_alive(supervisor.ws_process)
    /\ supervisor' = [supervisor EXCEPT !.ws_process = "exited"]
    /\ UNCHANGED worker
    /\ SupervisorFrame

\* finally: ws_process.terminate() and worker_process.terminate().  The Edge
\* Server either ends on SIGTERM or does not (its event loop may be blocked
\* in recv_json); the Worker's handler only clears `running`, and the
\* Worker stays in receive_command until a command arrives.
TeardownTerminate(edgeDies) ==
    /\ supervisor.pc = "teardown"
    /\ supervisor' = [supervisor EXCEPT
                        !.pc = "joining",
                        !.ws_process = IF is_alive(@) /\ edgeDies THEN "dead" ELSE @,
                        !.running = IF is_alive(worker.alive) THEN FALSE ELSE @]
    /\ UNCHANGED worker
    /\ SupervisorFrame

\* join(timeout=PROCESS_SHUTDOWN_TIMEOUT) of both children returns, the
\* child ended or not.
TeardownJoin ==
    /\ supervisor.pc = "joining"
    /\ supervisor' = [supervisor EXCEPT !.pc = "killing"]
    /\ UNCHANGED worker
    /\ SupervisorFrame

\* Faulty variant of kill: the signal is not sent.
kill_not_sent(p) == p
\* Process.kill(): SIGKILL ends a child that is still alive.
kill(p) == IF is_alive(p) THEN "dead" ELSE p

\* if ws_process.is_alive(): kill; if worker_process.is_alive(): kill; the
\* Supervisor then leaves main().
TeardownKill ==
    /\ supervisor.pc = "killing"
    /\ supervisor' = [supervisor EXCEPT !.pc = "done", !.ws_process = kill(@)]
    /\ worker' = IF is_alive(worker.alive)
                 THEN [NewWorker EXCEPT !.alive = kill(worker.alive)]
                 ELSE worker
    /\ obs' = Quiet
    /\ threads' = IF is_alive(worker.alive) /\ ~is_alive(kill(worker.alive)) THEN {} ELSE threads
    /\ pub' = IF is_alive(worker'.alive) THEN pub ELSE [pub EXCEPT !.sending = {}]
    /\ UNCHANGED <<edgeVars, wireVars, fs, updTrack, discSnap>>

\* ------------------------------------------------------- specifications
Next ==
    \/ \E s \in Sids, token \in Tokens : ConnectBegin(s, token)
    \/ \E s \in Sids, payload \in VerifyOutcomes : ConnectResume(s, payload)
    \/ \E s \in Sids, lose \in BOOLEAN : DisconnectCancel(s, lose)
    \/ \E s \in Sids : DisconnectRelease(s)
    \/ \E s \in Sids : NotifySendBegin(s)
    \/ NotifySendEnd
    \/ NotifyRecv
    \/ NotifyTimeout
    \/ \E s \in Sids, d \in EdgePayloads : Command(s, d)
    \/ CommandReturn
    \/ \E s \in Sids : ListenerDeliver(s)
    \/ WorkerHandle
    \/ UserPush
    \/ SubReconnect
    \/ SupervisorRespawn

Spec == Init /\ [][Next]_vars

\* Sessions that come and go: handshakes with an accepted credential, at
\* most MaxLiveCmds uploads (each restarts a loaded Worker), disconnects
\* and their notifications.  Pushes and refusals are left out.
SessionCommand(s) ==
    /\ cmdSeq < MaxLiveCmds
    /\ \E c \in UpdateInputs({ArcGoodA}) : Command(s, PayloadOf(c))

\* With encryption enabled: an update, start or process event whose data is
\* a string that does not decrypt.
GarbledCommand(s) ==
    /\ cmdSeq < MaxLiveCmds
    /\ \E command \in {"update", "start", "process"} : CommandEvent(s, command, Garbled)

NextSessions ==
    \/ \E s \in Sids : ConnectBegin(s, "tok")
    \/ \E s \in Sids : ConnectResume(s, "claims")
    \/ \E s \in Sids : DisconnectCancel(s, FALSE)
    \/ \E s \in Sids : DisconnectRelease(s)
    \/ \E s \in Sids : NotifySendBegin(s)
    \/ NotifySendEnd
    \/ NotifyRecv
    \/ NotifyTimeout
    \/ \E s \in Sids : SessionCommand(s)
    \/ \E s \in Sids : GarbledCommand(s)
    \/ CommandReturn
    \/ WorkerHandle
    \/ SupervisorRespawn

SpecSessions == Init /\ [][NextSessions]_vars

\* Handshakes of every outcome and disconnects of every sid: of the
\* admitted session, and of sids that are not admitted.
NextDisconnect ==
    \/ \E s \in Sids, token \in Tokens : ConnectBegin(s, token)
    \/ \E s \in Sids, payload \in VerifyOutcomes : ConnectResume(s, payload)
    \/ \E s \in Sids : DisconnectCancel(s, FALSE)
    \/ \E s \in Sids : DisconnectRelease(s)
    \/ \E s \in Sids : DisconnectOther(s)
    \/ \E s \in Sids : NotifySendBegin(s)
    \/ NotifySendEnd
    \/ NotifyRecv
    \/ NotifyTimeout
    \/ WorkerHandle

SpecDisconnect == Init /\ [][NextDisconnect]_vars

\* The Edge Server's own scheduling: the event loop resumes the disconnect
\* handler once the cancelled task has ended, and a pool thread runs
\* send_command to its end (send_json, then poll(timeout), which returns
\* with a reply or after the timeout).  Nothing is assumed of the Worker.
SpecEdgeLive ==
    /\ SpecSessions
    /\ \A s \in Sids : WF_vars(DisconnectRelease(s))
    /\ \A s \in Sids : WF_vars(NotifySendBegin(s))
    /\ WF_vars(NotifySendEnd)
    /\ WF_vars(NotifyRecv \/ NotifyTimeout)

\* ... and the other two processes keep running as well: the Worker takes
\* the next request, the Supervisor's poll finds a Worker that exited, and
\* the blocking recv_json of a command returns once a reply is there.
SpecSystemLive ==
    /\ SpecEdgeLive
    /\ WF_vars(WorkerHandle)
    /\ WF_vars(SupervisorRespawn)
    /\ WF_vars(CommandReturn)

\* The callback channel next to the command channel: sessions that come and
\* go, at most MaxPushCmds commands (calls that start the pushing thread of
\* the module's instance and of an instance of its class, and an upload,
\* which restarts a loaded Worker), and pushes published in two steps.  Two
\* sessions take part: a client and the one that takes the slot after it.
PushCommand(s) ==
    /\ cmdSeq < MaxPushCmds
    /\ \E c \in UpdateInputs({ArcGoodA}) \cup ProcessInputs(Objects, {"start_recognition"}) :
         Command(s, PayloadOf(c))

PushSids == {1, 2}

NextPush ==
    \/ \E s \in PushSids : ConnectBegin(s, "tok")
    \/ \E s \in PushSids : ConnectResume(s, "claims")
    \/ \E s \in PushSids, lose \in BOOLEAN : DisconnectCancel(s, lose)
    \/ \E s \in PushSids : DisconnectRelease(s)
    \/ \E s \in PushSids : NotifySendBegin(s)
    \/ NotifySendEnd
    \/ NotifyRecv
    \/ NotifyTimeout
    \/ \E s \in PushSids : PushCommand(s)
    \/ CommandReturn
    \/ \E s \in PushSids : ListenerDeliver(s)
    \/ WorkerHandle
    \/ \E t \in threads : PushBegin(t)
    \/ \E t \in {e.th : e \in pub.sending}, lost \in BOOLEAN : PushEnd(t, lost)
    \/ SubReconnect
    \/ SupervisorRespawn

SpecPush == Init /\ [][NextPush]_vars

\* The two utility classes on their own: obs holds an input, and a step
\* applies the function to it.
InitUtils == InitSystem /\ obs \in CryptoInputs \cup ForeignInputs \cup HandshakeInputs

UtilFrame == UNCHANGED <<edgeVars, workerVars, wireVars>>

Encrypt ==
    /\ obs.kind = "plain"
    /\ obs' = [obs EXCEPT !.kind = "payload"]
                @@ [encrypted |-> encrypt(obs.passphrase, obs.data, obs.salt)]
    /\ UtilFrame

Decrypt ==
    /\ obs.kind = "payload"
    /\ obs' = [obs EXCEPT !.kind = "decrypted"]
                @@ [result |-> decrypt(obs.other, obs.encrypted, obs.garble)]
    /\ UtilFrame

ExtractToken ==
    /\ obs.kind = "handshake"
    /\ obs' = [obs EXCEPT !.kind = "extracted"]
                @@ [token |-> extract_from_environ(
                                [HTTP_AUTHORIZATION |-> obs.header.raw,
                                 QUERY_STRING |-> obs.query.raw], obs.auth.raw)]
    /\ UtilFrame

NextUtils == Encrypt \/ Decrypt \/ ExtractToken

SpecUtils == InitUtils /\ [][NextUtils]_vars

\* The stop protocol on its own: a client_disconnected handled by a Worker
\* whose executor holds a module and a context with the given hooks.
StopInputs ==
    {[kind |-> "hooks", module |-> m, context |-> c] :
       m \in HookKinds \cup {"none"},
       c \in UNION {[1..n -> HookKinds \cup {"nostop"}] : n \in 0..MaxContext}}

InitStop == InitSystem /\ obs \in StopInputs

ClientDisconnected ==
    /\ obs.kind = "hooks"
    /\ LET ex == [NewExecutor EXCEPT !.module = TRUE]
           w == [NewWorker EXCEPT !.python_executor = <<ex>>]
           r == _handle_client_disconnect(WState(w, fs.current, {}))
       IN obs' = [kind |-> "stopped", module |-> obs.module, context |-> obs.context,
                  called |-> stop_calls(obs.module, obs.context),
                  reply |-> r.reply]
    /\ UtilFrame

SpecStop == InitStop /\ [][ClientDisconnected]_vars

\* The Worker and the Supervisor alone: a requester that keeps the
\* request/reply alternation feeds the command loop.
Feed(m) ==
    /\ reqWire = <<>>
    /\ repWire = <<>>
    /\ worker.alive = "up"
    /\ is_alive(supervisor.ws_process)
    /\ cmdSeq < MaxFeeds
    /\ cmdSeq' = cmdSeq + 1
    /\ reqWire' = <<[m EXCEPT !.id = cmdSeq + 1]>>
    /\ obs' = Quiet
    /\ UNCHANGED <<admission, reqSide>>
    /\ UNCHANGED <<workerVars, repWire, subQueue, subConnected>>

Collect ==
    /\ repWire # <<>>
    /\ repWire' = Tail(repWire)
    /\ obs' = Quiet
    /\ UNCHANGED <<edgeVars>>
    /\ UNCHANGED <<workerVars, reqWire, subQueue, subConnected>>

NextWorker ==
    \/ \E m \in WorkerInputs : Feed(m)
    \/ Collect
    \/ WorkerHandle
    \/ SupervisorRespawn

SpecWorker == Init /\ [][NextWorker]_vars

\* The two channels at the Worker: a requester that keeps the alternation
\* (update, which restarts a loaded Worker, the calls that start the pushing
\* threads, and a call whose result cannot be sent), user threads that
\* publish, and nobody who drains the callback channel.
ChannelInputs ==
    UpdateInputs({ArcGoodA})
      \cup ProcessInputs(Objects, {"start_recognition"})
      \cup ProcessInputs({ModuleInstance}, {UnserializableMethod})

\* ZMQManager.send_command as the Edge Server calls it: the REQ socket takes
\* the request whether the Worker is running or is between its exit 0 and
\* its respawn; the request waits for the REP socket to be bound again.
send_command(m) ==
    /\ reqWire = <<>>
    /\ repWire = <<>>
    /\ worker.alive \in {"up", "exit0"}
    /\ cmdSeq < MaxFeeds
    /\ cmdSeq' = cmdSeq + 1
    /\ reqWire' = <<[m EXCEPT !.id = cmdSeq + 1]>>
    /\ obs' = Quiet
    /\ UNCHANGED <<admission, reqSide>>
    /\ UNCHANGED <<workerVars, repWire, subQueue, subConnected>>

NextChannels ==
    \/ \E m \in ChannelInputs : send_command(m)
    \/ Collect
    \/ WorkerHandle
    \/ SupervisorRespawn
    \/ SubReconnect
    \/ \E t \in threads : PushBegin(t)
    \/ \E t \in {e.th : e \in pub.sending}, lost \in BOOLEAN : PushEnd(t, lost)

SpecChannels == Init /\ [][NextChannels]_vars

\* The Worker's loop takes the next request, the Supervisor's poll finds a
\* Worker that exited, the requester's blocking recv returns once a reply
\* is there.  Nothing is assumed of the user threads.
SpecChannelsLive ==
    /\ SpecChannels
    /\ WF_vars(WorkerHandle)
    /\ WF_vars(SupervisorRespawn)
    /\ WF_vars(Collect)

\* The Supervisor with its two children: the Worker fed with an upload (a
\* clean exit when a project is loaded), a call whose result cannot be
\* sent (a crash) and an ordinary call; the Edge Server as a process that
\* may end.
SupervisorInputs ==
    UpdateInputs({ArcGoodA})
      \cup ProcessInputs({ModuleInstance}, {"get_status", UnserializableMethod})

NextSupervisor ==
    \/ \E m \in SupervisorInputs : Feed(m)
    \/ Collect
    \/ WorkerHandle
    \/ SupervisorRespawn
    \/ SupervisorWorkerCrashed
    \/ SupervisorEdgeDied
    \/ Interrupt
    \/ EdgeExit
    \/ \E edgeDies \in BOOLEAN : TeardownTerminate(edgeDies)
    \/ TeardownJoin
    \/ TeardownKill

SpecSupervisor == Init /\ [][NextSupervisor]_vars

\* The Supervisor process keeps running: terminate() returns, join() has a
\* timeout and kill() returns, so each teardown step is eventually taken.
SpecSupervisorLive ==
    /\ SpecSupervisor
    /\ WF_vars(\E edgeDies \in BOOLEAN : TeardownTerminate(edgeDies))
    /\ WF_vars(TeardownJoin)
    /\ WF_vars(TeardownKill)

\* ============================================================ properties
\* C1 -- Single-client admission.  At most one session is admitted at any
\* time, the admitted session is the one the slot records, and a handshake
\* whose credential verified is refused only because the slot was occupied,
\* and then with code 00001.
C1_SingleAdmission ==
    /\ Cardinality(Admitted) <= 1
    /\ \A s \in Admitted : get_current_sid = s
    /\ (obs.kind = "refused" /\ obs.payload = "claims")
         => (obs.occupied /\ obs.refusal[1] = "00001")

\* A verified handshake has just been refused while another session is admitted.
C1_Witness ==
    /\ obs.kind = "refused"
    /\ obs.payload = "claims"
    /\ obs.refusal[1] = "00001"
    /\ Cardinality(Admitted) = 1
    /\ obs.sid \notin Admitted

\* C2 -- Command-channel alternation on the Edge side.  No request is written
\* to the REQ socket while the reply to an earlier request is outstanding.
C2_Alternation == obs.kind = "notify_sent" => ~obs.owed

\* C3 -- An update whose archive breaks an extraction rule leaves current/
\* exactly as it was and is answered with an error carrying a 02xxx code.
C3_RejectedArchiveFrame ==
    (obs.kind = "handled" /\ obs.type = "update"
       /\ obs.zip \in {a.id : a \in ViolatingArchives})
      => /\ obs.currentKept
         /\ obs.reply.status = "error"
         /\ obs.reply.error_code \in {"02001", "02002", "02003", "02004", "02005"}

\* C4 (as stated) -- Between the replies to two consecutive successful
\* updates exactly one Worker exit-0-and-respawn occurs, from any state.
C4_ExactlyOneRespawn ==
    (obs.kind = "handled" /\ obs.pair # -1) => obs.pair = 1

\* C4 (amended) -- Between the replies to two consecutive successful updates
\* exactly one respawn occurs when a project was loaded at the time of the
\* first update, and none otherwise.
C4_OneRespawnIffLoaded ==
    (obs.kind = "handled" /\ obs.pair # -1)
      => obs.pair = (IF obs.pairLoaded THEN 1 ELSE 0)

\* The second of two consecutive updates has been answered after one respawn.
C4_Witness == obs.kind = "handled" /\ obs.pair = 1 /\ obs.pairLoaded

\* C5 -- Handling client_disconnected leaves every field of the Worker
\* (executor, entry module, instance context, project path and kind, flags)
\* and current/ unchanged and replies success; a later process call, with no
\* update or start in between, on a name the context held at the disconnect
\* is dispatched to that same instance and, for a method it has, succeeds.
C5_DisconnectKeepsContext ==
    /\ (obs.kind = "handled" /\ obs.type = "client_disconnected")
         => (obs.workerKept /\ obs.currentKept /\ obs.reply.status = "success")
    /\ (obs.kind = "handled" /\ obs.type = "process" /\ obs.snap # 0)
         => /\ obs.inst = obs.snap
            /\ obs.method \in Methods => obs.reply.status = "success"

\* A process call after a disconnect has reached the instance memoized before it.
C5_Witness ==
    /\ obs.kind = "handled"
    /\ obs.type = "process"
    /\ obs.snap # 0
    /\ obs.inst = obs.snap
    /\ obs.reply.status = "success"

\* C6 -- A push is emitted only to the client that was admitted when it was
\* published; a push published with no client admitted is never emitted.
C6_PushToPublishTimeClient == obs.kind = "emit" => obs.adm = obs.to

\* C7 -- The value acknowledged to the client for a command is the Worker's
\* reply to that same command.
C7_ReplyOfSameCommand == obs.kind = "ack" => obs.reply.re = obs.id

\* C8 -- Re-admission.  Once a session's disconnect handler has run the slot
\* is not held by it, whatever became of the notification; and a handshake
\* whose credential verified is refused only while the slot is held by a
\* session whose disconnect handler has not run.
C8_Readmission ==
    /\ \A s \in Sids : hs[s].pc = "done" => get_current_sid # s
    /\ (obs.kind = "refused" /\ obs.payload = "claims")
         => get_current_sid \in Admitted

\* B is admitted after A left, while A's notification has timed out and
\* the REQ socket still owes its reply.
C8_Witness ==
    /\ hs[1].pc = "done"
    /\ hs[2].pc = "connected"
    /\ get_current_sid = 2
    /\ reqState = "awaiting"
    /\ notifySending = <<>> /\ notifyPolling = <<>> /\ inflight = <<>>

\* C9 -- A refused handshake, whatever the reason, leaves the slot with its
\* session triple unchanged and leaves the set of listener tasks unchanged.
C9_RefusedFrame ==
    obs.kind = "refused"
      => (obs.slotKept /\ obs.tasksKept /\ obs.sid \notin callback_tasks)

\* A handshake has been refused for an internal error while a session is admitted.
C9_Witness ==
    /\ obs.kind = "refused"
    /\ obs.refusal = RefuseInternal
    /\ active_client # <<>>
    /\ callback_tasks = {get_current_sid}

\* C10 -- Refusal codes: no credential, 00010; a credential the identity
\* service does not accept, 00011; a verified credential while a session is
\* active, 00001; each as "<error_code>:<message>".
C10_RefusalCodes ==
    obs.kind = "refused"
      => /\ obs.token = "" => obs.refusal[1] = "00010"
         /\ (obs.token # "" /\ obs.payload = "none") => obs.refusal[1] = "00011"
         /\ obs.payload = "claims" => (obs.occupied /\ obs.refusal[1] = "00001")
         /\ obs.payload # "nondict"
              => (Len(obs.refusal) = 3 /\ obs.refusal[2] = ":" /\ obs.refusal[3] # "")

\* A handshake has been refused because its credential was not accepted.
C10_Witness ==
    /\ obs.kind = "refused"
    /\ obs.token = "tok"
    /\ obs.payload = "none"
    /\ obs.refusal[1] = "00011"

\* C11 -- Every structurally invalid client command is answered with an
\* error reply whose error_code lies in the 01xxx band.
C11_InvalidCommandReply ==
    obs.kind = "rejected"
      => /\ obs.ack # <<>>
         /\ obs.ack[1].status = "error"
         /\ obs.ack[1].error_code \in {"01001", "01002", "01003", "01004"}

\* C12 -- A command that fails protocol validation is not forwarded, and it
\* and every refused handshake leave the command channel's requests and
\* the Worker's state (fields, threads, project directories) unchanged.
C12_NoWorkerContact ==
    /\ obs.kind = "forwarded" => obs.valid
    /\ obs.kind \in {"rejected", "refused"} => (obs.wireKept /\ obs.workerKept)

\* A malformed command has been turned away while a request of an earlier
\* command is with the Worker.
C12_Witness ==
    /\ obs.kind = "rejected"
    /\ obs.wireKept /\ obs.workerKept
    /\ cmdSeq > 0

\* C13 -- A process error reply carries the execution-band code of its
\* cause: 03003 for an object found neither in the context nor in the
\* module, 03002 for a missing method, 03001 for an exception raised by the
\* invocation.
C13_ExecutionCodes ==
    (obs.kind = "handled" /\ obs.type = "process" /\ obs.reply.status = "error")
      => /\ obs.reply.message = "object not found" => obs.reply.error_code = OBJECT_NOT_FOUND
         /\ obs.reply.message = "no such method" => obs.reply.error_code = METHOD_NOT_FOUND
         /\ obs.reply.message = "exception message" => obs.reply.error_code = EXECUTION_FAILED

\* C14 -- Whatever the invoked user method does, the Worker sends the reply
\* of the process command and stays in its command loop.
C14_ProcessNeverStopsWorker ==
    (obs.kind = "handled" /\ obs.type = "process")
      => (obs.replied /\ worker.alive = "up")

\* C15 -- After an update is rejected for an archive violation while a
\* project is loaded, a start issued next succeeds and loads the project
\* files that were loaded before the update.
C15_RejectedUpdateKeepsProject ==
    (/\ obs.kind = "handled" /\ obs.type = "update"
     /\ ArchiveById(obs.zip) \in ViolatingArchives
     /\ obs.before # <<>>)
      => LET r == _handle_start(WState(worker, fs.current, threads))
         IN /\ r.reply.status = "success"
            /\ r.st.cur = obs.before
            /\ r.st.w.sys_main[1].proj = EntrySource(obs.before)

C17_RespawnOnlyAfterExitZero ==
    [][/\ (is_alive(worker'.alive) /\ ~is_alive(worker.alive))
          => (exitcode(worker.alive) = 0 /\ worker.alive = "exit0"
              /\ supervisor.pc = "monitor")
       /\ supervisor.pc # "monitor"
          => (supervisor'.pc # "monitor"
              /\ ~(is_alive(worker'.alive) /\ ~is_alive(worker.alive))
              /\ ~(is_alive(supervisor'.ws_process) /\ ~is_alive(supervisor.ws_process)))
       /\ (supervisor.pc = "monitor" /\ supervisor'.pc # "monitor")
          => supervisor'.pc = "teardown"]_vars

\* The Supervisor has left the monitor loop on a crashed Worker, which is
\* still the dead process it found.
C17_Witness ==
    /\ supervisor.pc = "teardown"
    /\ worker.alive = "crashed"

\* C18 -- Once the Supervisor has left the monitor loop it eventually ends
\* with neither child alive, whether or not a child ended on SIGTERM.
C18_TeardownCompletes ==
    (supervisor.pc = "teardown")
      ~> (/\ supervisor.pc = "done"
          /\ ~is_alive(supervisor.ws_process)
          /\ ~is_alive(worker.alive))

\* Teardown has ended after SIGKILL was needed: the Edge Server did not end
\* on SIGTERM.
C18_Witness ==
    /\ supervisor.pc = "done"
    /\ supervisor.ws_process = "dead"
    /\ worker.alive = "dead"
    /\ ~supervisor.running

C20_EveryDisconnectHandled ==
    \A s \in Sids :
      (/\ obs.kind = "released" /\ obs.sid = s /\ obs.notify
       /\ worker.alive = "up" /\ worker.python_executor # <<>>)
        ~> (/\ obs.kind = "handled" /\ obs.type = "client_disconnected"
            /\ obs.sid = s)

\* C21 -- The pushes of one user thread that are emitted are emitted in the
\* order the thread published them and none twice, whatever other threads,
\* commands and listener cancellations do in between: when a push is
\* emitted, every push of the same thread that is still buffered or being
\* sent was published after it (and so is every push published later on).
C21_PushOrder ==
    obs.kind = "emit" =>
        /\ \A i \in 1..Len(subQueue) :
               subQueue[i].th = obs.th => subQueue[i].n > obs.n
        /\ \A e \in pub.sending : e.th = obs.th => e.n > obs.n

\* ... a push is emitted while the next push of the same thread is buffered.
C21_Witness ==
    /\ obs.kind = "emit"
    /\ \E i \in 1..Len(subQueue) : subQueue[i].th = obs.th /\ subQueue[i].n > obs.n

\* C22 -- At most one user thread is inside a publish on the callback socket.
C22_PublishMutex == Cardinality(pub.sending) <= 1

\* C23 -- After an update that triggered a restart the respawned Worker has
\* loaded the archive just extracted: the first process command, with no
\* start in between, is run by the main.py of that archive (and an archive
\* with an entry file does answer it), never by the code loaded before.
C23_RespawnRunsNewCode ==
    (updTrack.prev /\ updTrack.loaded /\ updTrack.respawns = 1 /\ worker.alive = "up")
      => \A m \in Methods :
           LET r == _handle_process(WState(worker, fs.current, threads), fs.default,
                                    ModuleInstance, m)
           IN /\ r.reply.status = "success" => r.reply.result[1] = updTrack.zip
              /\ HasEntryFile(fs.current) =>
                    /\ r.reply.status = "success"
                    /\ worker.python_executor # <<>>
                    /\ worker.sys_main[1].proj = updTrack.zip

\* ... the Worker respawned after archive B replaced a loaded project.
C23_Witness ==
    /\ updTrack.prev /\ updTrack.loaded /\ updTrack.respawns = 1 /\ worker.alive = "up"
    /\ updTrack.zip = "B"
    /\ worker.python_executor # <<>>

\* C24 -- An update makes the Worker exit with code 0 exactly when some
\* project had been loaded in this Worker process before (by the auto-load
\* or by a successful start) and the update succeeded; the exit comes after
\* the update's reply was sent; and a valid archive uploaded to a Worker that
\* has loaded nothing is answered with success and no restart.
C24_RestartIffLoadedAndSucceeded ==
    (obs.kind = "handled" /\ obs.type = "update")
      => /\ worker.alive = "exit0"
              <=> (obs.loadedBefore /\ obs.reply.status = "success")
         /\ worker.alive = "exit0" => obs.replied
         /\ (~obs.loadedBefore /\ obs.zip \in {a.id : a \in ValidArchives})
              => obs.reply.status = "success" /\ worker.alive = "up"

\* ... an update answered with success on a Worker that had loaded a
\* project: the reply is out and the Worker has exited.
C24_Witness ==
    /\ obs.kind = "handled" /\ obs.type = "update"
    /\ obs.loadedBefore /\ obs.reply.status = "success"
    /\ obs.replied /\ worker.alive = "exit0"

\* C26 -- With encryption enabled, an update, start or process event whose
\* payload does not decrypt is answered with an error reply and is not
\* forwarded to the Worker.
C26_UndecryptableRejected ==
    (obs.kind \in {"forwarded", "rejected"} /\ ~obs.decrypted)
      => /\ obs.kind = "rejected"
         /\ obs.ack # <<>>
         /\ obs.ack[1].status = "error"

\* C25 -- decrypt(encrypt(m)) under the same passphrase is m; a payload
\* encrypted under another passphrase, or one that is no "Salted__"
\* envelope, fails to decrypt and returns no data.
C25_EnvelopeRoundTrip ==
    obs.kind = "decrypted"
      => IF obs.encrypted.prefix = "Salted__" /\ obs.other = obs.passphrase
         THEN obs.result = [ok |-> TRUE, data |-> obs.data]
         ELSE obs.result = DecryptFailure

\* C27 -- The credential of a handshake is the one of the auth object if it
\* carries one, else the one of the Authorization: Bearer header, else the
\* one of the query string (token before auth, URL-decoded, an optional
\* Bearer prefix removed); and none if none of them carries one.
C27_ExtractionPriority ==
    obs.kind = "extracted"
      => obs.token = (IF obs.auth.cred # <<>> THEN obs.auth.cred
                      ELSE IF obs.header.cred # <<>> THEN obs.header.cred
                      ELSE obs.query.cred)

\* ... the auth object carries none, the header is not a Bearer header, and
\* the percent-encoded, Bearer-prefixed token of the query string is taken.
C27_Witness ==
    /\ obs.kind = "extracted"
    /\ obs.auth.raw # <<>> /\ obs.auth.cred = <<>>
    /\ obs.header.raw # <<>> /\ obs.header.cred = <<>>
    /\ obs.query.raw = <<Pair("token", TRUE, <<"Bearer", "%20", "q">>)>>
    /\ obs.token = <<"q">>

\* C28 -- send_command with a timeout that sees no reply raises TimeoutError
\* and leaves the REQ socket as it was: nothing is reset, closed or
\* reopened, and the request that timed out stays outstanding.
C28_TimeoutLeavesSocket ==
    obs.kind = "timeout" => obs.raised = "TimeoutError" /\ obs.socketKept

\* ... a notification timed out while its request is still with the Worker
\* and the socket owes the recv.
C28_Witness ==
    /\ obs.kind = "timeout"
    /\ reqState = "awaiting"
    /\ reqWire # <<>> /\ reqWire[Len(reqWire)].type = "client_disconnected"

\* C29 -- No deadlock between the channels: a request sent while the Worker
\* is alive, or while it is being respawned after exit 0, is answered,
\* however many pushes the user threads publish and with nobody draining
\* the callback channel.
C29_CommandAnswered == (reqWire # <<>>) ~> (repWire # <<>>)

\* C30 -- Worker-side alternation: every command the loop receives, of
\* every type and with every handler outcome, is followed by exactly one
\* reply.
C30_OneReplyPerCommand == obs.kind = "handled" => obs.replies = 1

\* C31 -- Validate-then-write: after an update, current/ holds a member
\* file of the uploaded archive only if the archive is within the
\* member-count and total-size limits and every member has passed the
\* extension, path and compression-ratio checks; when a check has failed,
\* current/ holds no member file.
C31_ValidateThenWrite ==
    (obs.kind = "handled" /\ obs.type = "update" /\ obs.zip # "")
      => LET a == ArchiveById(obs.zip)
             passed == /\ Len(a.members) <= MAX_FILES
                       /\ SumSizes(a.members) <= MAX_UNCOMPRESSED_SIZE
                       /\ \A i \in 1..Len(a.members) : MemberError(a.members[i]) = ""
             memberFiles == IF fs.current = <<>> THEN {}
                            ELSE {f \in fs.current[1] : f.src = a.id /\ f.name # "project.zip"}
         IN /\ memberFiles # {} => passed
            /\ (a.b64ok /\ a.zipSize <= MAX_ZIP_SIZE /\ a.zipok /\ ~passed)
                 => fs.current = <<{File("project.zip", a.id)}>>

\* ... an archive whose second member escapes the target directory has been
\* refused, and its first member, which passes every check, was not written.
C31_Witness ==
    /\ obs.kind = "handled" /\ obs.type = "update" /\ obs.zip = "dotdot"
    /\ obs.reply.error_code = PROJECT_SECURITY_VIOLATION
    /\ File("main.py", "dotdot") \notin fs.current[1]

\* C32 -- Stop protocol: on client_disconnected the module-level stop(), if
\* defined, is called first, then stop() of every context object that
\* defines one, each exactly once and in order; a hook that raises does not
\* keep a later hook from being called, and the reply is success whatever
\* the hooks did.
C32_StopProtocol ==
    obs.kind = "stopped"
      => /\ \A i \in 1..Len(obs.context) :
               obs.context[i] \in HookKinds
                 <=> Cardinality({k \in 1..Len(obs.called) : obs.called[k] = i}) = 1
         /\ obs.module \in HookKinds <=> (obs.called # <<>> /\ obs.called[1] = 0)
         /\ \A k \in 2..Len(obs.called) : obs.called[k] > obs.called[k - 1]
         /\ obs.reply.status = "success"

\* ... the module's stop() and the first object's stop() raised, and the
\* second object's stop() was still called.
C32_Witness ==
    /\ obs.kind = "stopped"
    /\ obs.module = "raises"
    /\ obs.context = <<"raises", "ok">>
    /\ obs.called = <<0, 1, 2>>

\* C33 -- Teardown idempotence: on every Worker state with an executor,
\* running stop_threads twice, cleanup twice, or _cleanup_executors twice
\* leaves the Worker (module reference, context, injected push_message,
\* sys.modules['main'], sys.path), current/ and the user threads exactly as
\* running it once.
C33_TeardownIdempotent ==
    (worker.alive = "up" /\ worker.python_executor # <<>>)
      => LET st == WState(worker, fs.current, threads)
         IN /\ stop_threads(stop_threads(st)) = stop_threads(st)
            /\ cleanup(cleanup(st)) = cleanup(st)
            /\ _cleanup_executors(_cleanup_executors(st)) = _cleanup_executors(st)

\* ... on a Worker whose loaded executor has an instance in its context,
\* the injected push_message, a running user thread and the project
\* directory in sys.path, so that the first cleanup changes all of them.
C33_Witness ==
    /\ worker.alive = "up" /\ worker.python_executor # <<>>
    /\ worker.python_executor[1].module
    /\ worker.python_executor[1].context # NoContext
    /\ worker.sys_main # <<>> /\ worker.sys_main[1].injected
    /\ threads # {}
    /\ worker.sys_path # worker.python_executor[1].original_sys_path
    /\ cleanup(WState(worker, fs.current, threads)) # WState(worker, fs.current, threads)

\* C34 -- Push-injection invariant: in every state of a running Worker,
\* sys.modules['main'] holds the injected push_message exactly when the
\* Worker holds an executor whose module is loaded.
C34_InjectedIffLoaded ==
    worker.alive = "up"
      => ((worker.sys_main # <<>> /\ worker.sys_main[1].injected)
            <=> (worker.python_executor # <<>> /\ worker.python_executor[1].module))

\* C35 -- process without an executor: the Worker first runs the auto-load
\* path (default/ is copied into an empty current/, then current/ is loaded
\* if it holds a Python project); if an executor exists afterwards the call
\* is dispatched to call_function, which answers with the code of the module
\* the load imported; otherwise the reply is 02004, no user method is invoked
\* and nothing else changes.
C35_ProcessAutoLoads ==
    [][(/\ worker.alive = "up" /\ reqWire # <<>>
        /\ Head(reqWire).type = "process"
        /\ worker.python_executor = <<>>
        /\ obs'.kind = "handled" /\ worker'.alive = "up")
         => LET cur1 == IF IsEmptyDir(fs.current) /\ fs.default
                        THEN <<DefaultFiles>> ELSE fs.current
                exists == worker'.python_executor # <<>>
            IN /\ fs'.current = cur1
               /\ exists <=> (~IsEmptyDir(cur1) /\ HasPython(cur1[1]))
               /\ exists <=> obs'.reply.error_code # PROJECT_NOT_FOUND
               /\ exists => obs'.reply.error_code = ""
               /\ (exists /\ worker'.python_executor[1].module
                      /\ obs'.object \in Objects /\ obs'.method \in Methods)
                    => /\ obs'.reply.status = "success"
                       /\ obs'.inst # 0
                       /\ worker'.sys_main # <<>>
                       /\ obs'.reply.result = <<worker'.sys_main[1].proj, obs'.method>>
               /\ ~exists => /\ obs'.reply.status = "error"
                              /\ obs'.inst = 0
                              /\ threads' = threads
                              /\ worker' = worker]_vars

\* ... a process call on a Worker in which nothing had been loaded was
\* answered by the code of the archive uploaded just before.
C35_Witness ==
    /\ obs.kind = "handled" /\ obs.type = "process"
    /\ ~obs.loadedBefore
    /\ obs.reply.status = "success"
    /\ obs.reply.result[1] = "A"

\* C36 -- Callback-task invariant: at most one callback-forwarding task is
\* registered and it is the admitted session's; a push is emitted only to
\* the admitted session by its registered, uncancelled task; and when a
\* disconnect clears the slot the session's task is no longer registered,
\* so no push is emitted to a session once its slot is cleared.
C36_CallbackTask ==
    /\ Cardinality(callback_tasks) <= 1
    /\ \A s \in callback_tasks : get_current_sid = s
    /\ \A s \in Sids : hs[s].pc = "done" => s \notin callback_tasks
    /\ obs.kind = "emit"
         => /\ obs.to = get_current_sid
            /\ obs.to \in callback_tasks
            /\ hs[obs.to].pc = "connected"
    /\ obs.kind = "released"
         => /\ obs.sid \notin callback_tasks
            /\ get_current_sid # obs.sid

\* ... the admitted session's disconnect has just cleared the slot while a
\* push waits in the callback channel: no task is registered to emit it.
C36_Witness ==
    /\ obs.kind = "released" /\ obs.notify
    /\ subQueue # <<>>
    /\ callback_tasks = {}
    /\ active_client = <<>>

\* C37 -- A disconnect event for a sid that is not the admitted session
\* leaves the admission slot and the registered callback task as they were
\* and submits no client_disconnected notification.
C37_ForeignDisconnectFrame ==
    obs.kind = "disconnected"
      => /\ obs.slotKept
         /\ ~obs.notify

\* ... the disconnect of a refused handshake has run while another session
\* is admitted and has its task.
C37_Witness ==
    /\ obs.kind = "disconnected"
    /\ active_client # <<>>
    /\ get_current_sid # obs.sid
    /\ callback_tasks = {get_current_sid}

\* C38 -- At most one Worker process is alive: whenever the Supervisor
\* starts a Worker, the process it had started before is no longer alive.
C38_OneWorkerAlive == obs.kind = "spawned" => ~is_alive(obs.previous)

\* ... a Worker has just been started in place of one that exited with 0.
C38_Witness ==
    /\ obs.kind = "spawned"
    /\ obs.previous = "exit0"
    /\ is_alive(worker.alive)

\* C39 -- The Worker process exits with status 0 only because a successful
\* update set the restart flag: a command after which the Worker has left
\* its loop with exit code 0 is an update answered with success.
C39_ExitZeroOnlyByUpdate ==
    (obs.kind = "handled" /\ ~is_alive(worker.alive) /\ exitcode(worker.alive) = 0)
      => (obs.type = "update" /\ obs.reply.status = "success")

\* C40 -- Context lifetime within one Worker process: an instance memoized
\* in the context stays there, and is the one a process call naming it
\* reaches, over every command other than a successful start and an update;
\* a successful start leaves an executor with an empty context.
C40_ContextLifetime ==
    [][(/\ worker.alive = "up" /\ worker'.alive = "up"
        /\ obs'.kind = "handled"
        /\ worker.python_executor # <<>>)
         => LET ctx == worker.python_executor[1].context
                kept == \A o \in ObjNames :
                          ctx[o] # 0
                            => /\ worker'.python_executor # <<>>
                               /\ worker'.python_executor[1].context[o] = ctx[o]
            IN /\ (obs'.type = "start" /\ obs'.reply.status = "success")
                    => worker'.python_executor[1].context = NoContext
               /\ (obs'.type # "update"
                      /\ ~(obs'.type = "start" /\ obs'.reply.status = "success"))
                    => kept
               /\ (obs'.type = "process" /\ ctx[obs'.object] # 0)
                    => obs'.inst = ctx[obs'.object]]_vars

====
